---- MODULE Spec2Model ----
(***************************************************************************)
(* QA-SiteCheck analysis pipeline: the page fetcher (FetcherService), the  *)
(* performance prober (PerformanceService), the category analyzers and the *)
(* orchestrator, as state machines translated from backend/app/services.   *)
(***************************************************************************)
EXTENDS Integers, Sequences, FiniteSets, TLC

\* ------------------------------------------------------------------------
\* Bounds of the model
\* ------------------------------------------------------------------------
\* largest max_retries a FetcherService is constructed with
MaxRetriesBound == 2

\* ------------------------------------------------------------------------
\* State
\* ------------------------------------------------------------------------
VARIABLES
    max_retries,  \* self.max_retries, fixed by the constructor
    fpc,          \* position of fetch(): idle, attempt, handler, sleep, http, done
    attempt,      \* loop variable of fetch()
    apc,          \* position inside _fetch_attempt
    pending,      \* what the running attempt will do on exit: none, ok, or the exception kind
    open,         \* playwright resources currently open
    navStatus,    \* response.status of the last successful navigation
    attempts,     \* history: browser attempts started in this call
    outcomes,     \* history: how each browser attempt ended
    sleeps,       \* history: asyncio.sleep durations of this call, in order
    httpCalls,    \* history: plain HTTP GETs issued in this call
    httpOutcome,  \* history: how the HTTP GET ended (none if not issued)
    afterDns,     \* history: steps taken after a browser attempt raised a DNS error
    httpEnv,      \* environment: how a plain HTTP GET of the URL ends during this call
    exitPath,     \* history: the statement at which the running attempt last failed
    opened,       \* history: resources the running attempt has opened
    fres          \* the dict fetch() returned (NoResult before it returns)

fetchVars == <<max_retries, fpc, attempt, apc, pending, open, navStatus, attempts,
               outcomes, sleeps, httpCalls, httpOutcome, afterDns, httpEnv, exitPath,
               opened, fres>>

VARIABLES
    api_key,       \* bool(self.api_key): the configured GOOGLE_PAGESPEED_API_KEY
    clock,         \* time.time() / datetime.utcnow(), in seconds
    ticks,         \* steps of time taken
    last_call_ts,  \* PerformanceService._last_call_ts
    sem_value,     \* PerformanceService._semaphore._value
    cache,         \* PerformanceService._cache: key -> entry, or NoEntry
    ppc,           \* position of each request in analyze()
    preq,          \* each request's running call: its key and history (NoCall when none)
    presult,       \* the dict each request's last analyze() returned (NoResult while it runs)
    ext_done,      \* history: key and issue time of the last finished external call
    last_issue     \* history: when the last external call was issued (-1: never)

perfVars == <<api_key, clock, ticks, last_call_ts, sem_value, cache, ppc, preq, presult, ext_done,
              last_issue>>

VARIABLES
    ain,   \* the analyzer call under study: which analyzer, and its inputs
    aout   \* what that call returned or raised (NoResult before it ran)

anaVars == <<ain, aout>>

VARIABLES
    opc,                   \* position of analyze_url()
    fetched,               \* page_data, the dict fetch() returned
    site,                  \* the page that dict describes (NoPage: none, or an error page)
    html_bugs,             \* locals of analyze_url ...
    accessibility_issues,
    performance,
    security_issues,
    returned,              \* what analyze_url returned, or the exception that left it
    calls                  \* the calls analyze_url made to the analyzers, in order

orchVars == <<opc, fetched, site, html_bugs, accessibility_issues, performance,
              security_issues, returned, calls>>

\* concurrent analyze_url() coroutines on the one event loop of the process
VARIABLES
    rpc,       \* position of each request's analyze_url(): the call it waits in
    running    \* the request whose synchronous call holds the loop's thread ("none")

loopVars == <<rpc, running>>

\* ------------------------------------------------------------------------
\* FetcherService
\* ------------------------------------------------------------------------
\* Exceptions are modelled by what fetch() reads of them: whether str(e) holds
\* 'ERR_NAME_NOT_RESOLVED' ("dns") and, for the record, the kind of failure.
ErrorKinds == {"dns", "timeout", "ssl", "refused", "other"}

\* HTTP statuses a server may answer with
StatusCodes == {200, 404, 500}

Resources == {"driver", "browser", "context", "page"}

NoResult == [kind |-> "none"]

status_map_all_500(error_type) == 500

\* _create_error_response: status_map.get(error_type, 500)
status_map(error_type) ==
    CASE error_type = "dns_error" -> 404
      [] error_type = "timeout" -> 408
      [] error_type = "ssl_error" -> 526
      [] error_type = "connection_refused" -> 503
      [] error_type = "fetch_failed" -> 500
      [] OTHER -> 500

\* the url fetch() is called with
RequestedUrl == "u"

\* str(e) of the exception an error response reports
error_str == "error text"

create_error_response(error_type) ==
    [kind |-> "page", error |-> TRUE, error_type |-> error_type,
     status_code |-> status_map(error_type), tier |-> "none",
     load_time |-> 0, size_bytes |-> 0, html |-> "empty",
     final_url |-> RequestedUrl, error_message |-> error_str,
     title |-> "None", meta_tags |-> <<>>, images |-> <<>>, links |-> <<>>,
     forms |-> <<>>, scripts |-> <<>>, stylesheets |-> <<>>,
     headings |-> [h \in {"h1", "h2", "h3", "h4", "h5", "h6"} |-> <<>>]]

\* the page_data dict built on success by _fetch_attempt / _http_fallback
page_data(tier, status) ==
    [kind |-> "page", error |-> FALSE, error_type |-> "None",
     status_code |-> status, tier |-> tier,
     load_time |-> 1, size_bytes |-> 1, html |-> "site"]

FetchInit ==
    /\ max_retries \in 0..MaxRetriesBound
    /\ fpc = "idle"
    /\ attempt = 0
    /\ apc = "out"
    /\ pending = "none"
    /\ open = {}
    /\ navStatus = 0
    /\ attempts = 0
    /\ outcomes = <<>>
    /\ sleeps = <<>>
    /\ httpCalls = 0
    /\ httpOutcome = "none"
    /\ afterDns = 0
    /\ httpEnv \in {"ok"} \cup ErrorKinds
    /\ exitPath = "none"
    /\ opened = {}
    /\ fres = NoResult

\* every step of the call after a DNS error of a browser attempt is counted
NoteStep == afterDns' = IF \E i \in 1..Len(outcomes) : outcomes[i] = "dns"
                        THEN afterDns + 1 ELSE afterDns

\* fetch(url) is called: for attempt in range(self.max_retries + 1)
FetchCall ==
    /\ fpc = "idle"
    /\ fpc' = "attempt"
    /\ attempt' = 0
    /\ UNCHANGED <<max_retries, apc, pending, open, navStatus, attempts, outcomes,
                   sleeps, httpCalls, httpOutcome, afterDns, httpEnv, exitPath,
                   opened, fres>>

\* --- _fetch_attempt ------------------------------------------------------
\* async with async_playwright() as p: the driver starts, or the attempt raises
EnterPlaywright ==
    /\ fpc = "attempt" /\ apc = "out"
    /\ attempts' = attempts + 1
    /\ NoteStep
    /\ \/ /\ open' = open \cup {"driver"}
          /\ opened' = {"driver"}
          /\ apc' = "launch"
          /\ pending' = "none"
          /\ exitPath' = "none"
       \/ /\ open' = open
          /\ opened' = {}
          /\ apc' = "exited"
          /\ pending' = "other"
          /\ exitPath' = "async_playwright"
    /\ UNCHANGED <<max_retries, fpc, attempt, navStatus, outcomes, sleeps, httpCalls,
                   httpOutcome, httpEnv, fres>>

\* one of the calls made before the try block: a success opens `res` (if any) and
\* moves on, a failure leaves the with-block with the exception, skipping finally
SetupStep(here, res, next) ==
    /\ fpc = "attempt" /\ apc = here
    /\ \/ /\ open' = open \cup res
          /\ opened' = opened \cup res
          /\ apc' = next
          /\ UNCHANGED <<pending, exitPath>>
       \/ /\ apc' = "scope_exit"
          /\ pending' = "other"
          /\ exitPath' = here
          /\ UNCHANGED <<open, opened>>
    /\ UNCHANGED <<max_retries, fpc, attempt, navStatus, attempts, outcomes, sleeps,
                   httpCalls, httpOutcome, afterDns, httpEnv, fres>>

\* browser = await p.chromium.launch(...)
LaunchBrowser == SetupStep("launch", {"browser"}, "new_context")

\* context = await browser.new_context(...)
NewContext == SetupStep("new_context", {"context"}, "new_page")

\* page = await context.new_page()
NewPage == SetupStep("new_page", {"page"}, "init_script")

\* await page.add_init_script(...)
AddInitScript == SetupStep("init_script", {}, "goto")

\* try: page.goto(...), wait, page.content(), build page_data; return page_data
Navigate ==
    /\ fpc = "attempt" /\ apc = "goto"
    /\ \/ \E s \in StatusCodes :
            /\ navStatus' = s
            /\ pending' = "ok"
            /\ exitPath' = "return"
       \/ \E k \in ErrorKinds :
            /\ navStatus' = navStatus
            /\ pending' = k
            /\ exitPath' = "goto"
    /\ apc' = "close_context"
    /\ UNCHANGED <<max_retries, fpc, attempt, open, attempts, outcomes, sleeps,
                   httpCalls, httpOutcome, afterDns, httpEnv, opened, fres>>

\* finally: await context.close(); an exception raised here replaces the pending
\* return or exception and skips browser.close()
CloseContext ==
    /\ fpc = "attempt" /\ apc = "close_context"
    /\ \/ /\ open' = open \ {"context", "page"}
          /\ apc' = "close_browser"
          /\ UNCHANGED <<pending, exitPath>>
       \/ /\ open' = open
          /\ apc' = "scope_exit"
          /\ pending' = "other"
          /\ exitPath' = "close_context"
    /\ UNCHANGED <<max_retries, fpc, attempt, navStatus, attempts, outcomes, sleeps,
                   httpCalls, httpOutcome, afterDns, httpEnv, opened, fres>>

\* finally: await browser.close()
CloseBrowser ==
    /\ fpc = "attempt" /\ apc = "close_browser"
    /\ \/ /\ open' = open \ {"browser", "context", "page"}
          /\ UNCHANGED <<pending, exitPath>>
       \/ /\ open' = open
          /\ pending' = "other"
          /\ exitPath' = "close_browser"
    /\ apc' = "scope_exit"
    /\ UNCHANGED <<max_retries, fpc, attempt, navStatus, attempts, outcomes, sleeps,
                   httpCalls, httpOutcome, afterDns, httpEnv, opened, fres>>

PlaywrightExitLeaky == {"driver"}

\* what leaving the async_playwright() block releases: stopping the driver ends
\* every browser, context and page that was opened through it
PlaywrightExitReleases == Resources

\* leaving `async with async_playwright()`, by return or by exception
ExitPlaywright ==
    /\ fpc = "attempt" /\ apc = "scope_exit"
    /\ open' = open \ PlaywrightExitReleases
    /\ apc' = "exited"
    /\ UNCHANGED <<max_retries, fpc, attempt, pending, navStatus, attempts, outcomes,
                   sleeps, httpCalls, httpOutcome, afterDns, httpEnv, exitPath,
                   opened, fres>>

\* --- fetch ---------------------------------------------------------------
\* return await self._fetch_attempt(url)
AttemptReturns ==
    /\ fpc = "attempt" /\ apc = "exited" /\ pending = "ok"
    /\ fres' = page_data("browser", navStatus)
    /\ outcomes' = Append(outcomes, "ok")
    /\ fpc' = "done"
    /\ UNCHANGED <<max_retries, attempt, apc, pending, open, navStatus, attempts,
                   sleeps, httpCalls, httpOutcome, afterDns, httpEnv, exitPath, opened>>

IsDnsFailureNever(kind) == FALSE

\* 'ERR_NAME_NOT_RESOLVED' in error_str
IsDnsFailure(kind) == kind = "dns"

IsLastAttemptLate(a) == a > max_retries

\* attempt == self.max_retries
IsLastAttempt(a) == a = max_retries

wait_time_double(a) == 2 * a

\* wait_time = 2 ** attempt
wait_time(a) == 2 ^ a

\* except Exception as e: the three branches of the handler
AttemptRaises ==
    /\ fpc = "attempt" /\ apc = "exited" /\ pending \in ErrorKinds
    /\ outcomes' = Append(outcomes, pending)
    /\ IF IsDnsFailure(pending)
       THEN /\ fres' = create_error_response("dns_error")
            /\ fpc' = "done"
            /\ UNCHANGED <<sleeps>>
       ELSE IF IsLastAttempt(attempt)
       THEN /\ fpc' = "http"
            /\ UNCHANGED <<fres, sleeps>>
       ELSE /\ fpc' = "sleep"
            /\ sleeps' = Append(sleeps, wait_time(attempt))
            /\ UNCHANGED <<fres>>
    /\ UNCHANGED <<max_retries, attempt, apc, pending, open, navStatus, attempts,
                   httpCalls, httpOutcome, afterDns, httpEnv, exitPath, opened>>

\* await asyncio.sleep(wait_time) is over: the next round of the for loop; a
\* loop that runs out of rounds falls off the end of fetch(), which returns None
SleepDone ==
    /\ fpc = "sleep"
    /\ NoteStep
    /\ attempt' = attempt + 1
    /\ apc' = "out"
    /\ pending' = "none"
    /\ IF attempt + 1 <= max_retries
       THEN fpc' = "attempt" /\ fres' = fres
       ELSE fpc' = "done" /\ fres' = [kind |-> "None"]
    /\ UNCHANGED <<max_retries, open, navStatus, attempts, outcomes, sleeps,
                   httpCalls, httpOutcome, httpEnv, exitPath, opened>>

http_fallback_classifies(outcome, status) ==
    CASE outcome = "ok" -> page_data("http", status)
      [] outcome = "timeout" -> create_error_response("timeout")
      [] outcome = "ssl" -> create_error_response("ssl_error")
      [] outcome = "refused" -> create_error_response("connection_refused")
      [] OTHER -> create_error_response("fetch_failed")

http_fallback_always_fails(outcome, status) == create_error_response("fetch_failed")

\* the dict _http_fallback returns: the page on a response (whatever its status,
\* redirects followed), the fetch_failed error response on any exception
http_fallback_result(outcome, status) ==
    IF outcome = "ok" THEN page_data("http", status)
    ELSE create_error_response("fetch_failed")

\* return await self._http_fallback(url, error_str)
HttpFallback ==
    /\ fpc = "http"
    /\ NoteStep
    /\ httpCalls' = httpCalls + 1
    /\ httpOutcome' = httpEnv
    /\ \E s \in StatusCodes : fres' = http_fallback_result(httpEnv, s)
    /\ fpc' = "done"
    /\ UNCHANGED <<max_retries, attempt, apc, pending, open, navStatus, attempts,
                   outcomes, sleeps, httpEnv, exitPath, opened>>

FetchNext ==
    \/ FetchCall
    \/ EnterPlaywright
    \/ LaunchBrowser
    \/ NewContext
    \/ NewPage
    \/ AddInitScript
    \/ Navigate
    \/ CloseContext
    \/ CloseBrowser
    \/ ExitPlaywright
    \/ AttemptReturns
    \/ AttemptRaises
    \/ SleepDone
    \/ HttpFallback

\* ------------------------------------------------------------------------
\* PerformanceService
\* ------------------------------------------------------------------------
\* seconds the clock advances in one step of time
TickSeconds == 5

\* steps of time in one behaviour
MaxTicks == 2

PAGESPEED_COOLDOWN_SECONDS == 10

\* CACHE_DURATION = timedelta(hours=6), in seconds
CACHE_DURATION == 21600

\* concurrently running requests (asyncio tasks)
Procs == {"r1", "r2"}

\* the (url, strategy) pairs analyze() is called with
Requests == {<<"a", "mobile">>, <<"a", "desktop">>}

\* scores the PageSpeed API reports, as int(score * 100)
ApiScores == {95}

\* (time to first byte in ms, HTML size in KB) the fallback GET may measure
FallbackSamples == {<<1800, 600>>}

\* what the external call can end in: a response (parsed, 429, 400 with the
\* error object of the API, 400 with a body that is not such JSON, another
\* error status, 200 with a body that does not parse), a timeout, or another
\* exception of client.get
ApiOutcomes ==
    {"ok", "429", "400", "400_not_json", "http_error", "malformed", "timeout", "exception"}

NoEntry == [kind |-> "absent"]

\* _cache_key: md5 of f"{url}:{strategy}"; distinct (url, strategy) pairs give
\* distinct keys, so the pair stands for its digest
cache_key(url, strategy) == <<url, strategy>>

\* page.url / response.url after redirects: the requested url or another one
FinalUrls == {RequestedUrl, "a"}

Keys == {cache_key(r[1], r[2]) : r \in Requests \cup (FinalUrls \X {"mobile"})}

\* _grade
grade(score) ==
    IF score >= 90 THEN "A"
    ELSE IF score >= 80 THEN "B"
    ELSE IF score >= 70 THEN "C"
    ELSE IF score >= 60 THEN "D"
    ELSE "F"

Max(a, b) == IF a >= b THEN a ELSE b

Min(a, b) == IF a <= b THEN a ELSE b

estimate_score_inclusive(ttfb_ms, size_kb) ==
    LET t == IF ttfb_ms >= 1500 THEN 30
             ELSE IF ttfb_ms >= 1000 THEN 20
             ELSE IF ttfb_ms >= 700 THEN 10
             ELSE 0
        z == IF size_kb >= 500 THEN 20
             ELSE IF size_kb >= 300 THEN 10
             ELSE 0
    IN  Max(30, Min(100 - t - z, 100))

\* _estimate_score, with ttfb in milliseconds
estimate_score(ttfb_ms, size_kb) ==
    LET t == IF ttfb_ms > 1500 THEN 30
             ELSE IF ttfb_ms > 1000 THEN 20
             ELSE IF ttfb_ms > 700 THEN 10
             ELSE 0
        z == IF size_kb > 500 THEN 20
             ELSE IF size_kb > 300 THEN 10
             ELSE 0
    IN  Max(30, Min(100 - t - z, 100))

parse_as_fallback(score) ==
    [available |-> TRUE, fallback |-> TRUE, score |-> score, grade |-> grade(score),
     source |-> "Google PageSpeed Insights", cached |-> FALSE]

\* _parse_pagespeed
parse_pagespeed(score) ==
    [available |-> TRUE, fallback |-> FALSE, score |-> score, grade |-> grade(score),
     source |-> "Google PageSpeed Insights", cached |-> FALSE]

\* what _fallback_performance_check returns when its GET succeeds
fallback_ok(ttfb_ms, size_kb) ==
    [available |-> TRUE, fallback |-> TRUE, score |-> estimate_score(ttfb_ms, size_kb),
     grade |-> grade(estimate_score(ttfb_ms, size_kb)),
     source |-> "Lightweight HTTP Performance Check"]

fallback_raises == [kind |-> "raised", exc |-> "Exception"]

\* what _fallback_performance_check returns when its GET raises
fallback_failed ==
    [available |-> FALSE, fallback |-> TRUE,
     source |-> "Lightweight HTTP Performance Check"]

FallbackResults == {fallback_ok(m[1], m[2]) : m \in FallbackSamples} \cup {fallback_failed}

\* measurements of the fallback GET at and around the thresholds of
\* _estimate_score: time to first byte in ms (the GET's timeout is 20 s) and
\* HTML size in KB
TtfbSamples == {0, 500, 699, 700, 701, 999, 1000, 1001, 1200, 1499, 1500, 1501, 1800, 20000}

SizeSamples == {0, 100, 299, 300, 301, 400, 499, 500, 501, 600, 5000}

\* one call of _fallback_performance_check whose GET succeeds
FallbackCheck(ttfb_ms, size_kb) ==
    /\ ain = [svc |-> "none"]
    /\ ain' = [svc |-> "fallback_check", ttfb_ms |-> ttfb_ms, size_kb |-> size_kb]
    /\ aout' = fallback_ok(ttfb_ms, size_kb)

\* one call of _fallback_performance_check whose GET raises
FallbackCheckFails ==
    /\ ain = [svc |-> "none"]
    /\ ain' = [svc |-> "fallback_check", ttfb_ms |-> -1, size_kb |-> -1]
    /\ aout' = fallback_failed

cache_valid_forever(entry, now) == TRUE

\* _cache_valid: datetime.utcnow() - entry["cached_at"] < self.CACHE_DURATION
cache_valid(entry, now) == now - entry.cached_at < CACHE_DURATION

\* now - PerformanceService._last_call_ts < PAGESPEED_COOLDOWN_SECONDS
cooldown_active(now, last) == now - last < PAGESPEED_COOLDOWN_SECONDS

locked_never(v) == FALSE

\* asyncio.Semaphore.locked(): no slot is left
locked(v) == v = 0

NoExt == [key |-> <<"none", "none">>, at |-> -1]

\* a request that is not in a call
NoCall ==
    [key |-> <<"none", "none">>, ext |-> -1, in_window |-> FALSE]

PerfInit ==
    /\ api_key \in BOOLEAN
    /\ clock = PAGESPEED_COOLDOWN_SECONDS
    /\ ticks = 0
    /\ last_call_ts = 0
    /\ sem_value = 1
    /\ cache = [k \in Keys |-> NoEntry]
    /\ ppc = [p \in Procs |-> "idle"]
    /\ preq = [p \in Procs |-> NoCall]
    /\ presult = [p \in Procs |-> NoResult]
    /\ ext_done = NoExt
    /\ last_issue = -1

\* the steps of time: a short one, and one that with a short one makes up
\* the lifetime of a cache entry
TickSteps == {TickSeconds, CACHE_DURATION - TickSeconds}

\* time passes; a call lasts seconds (the timeouts of its requests are 60 s
\* and 20 s), so hours pass only between calls
Tick(d) ==
    /\ ticks < MaxTicks
    /\ d = TickSeconds \/ \A p \in Procs : ppc[p] \in {"idle", "done"}
    /\ ticks' = ticks + 1
    /\ clock' = clock + d
    /\ UNCHANGED <<api_key, last_call_ts, sem_value, cache, ppc, preq, presult, ext_done,
                   last_issue>>

\* history of a call that starts now: whether it starts within the cooldown
\* window after a finished call of the same key issued its external call
NewCall(key) ==
    [NoCall EXCEPT !.key = key,
                   !.in_window = /\ ext_done.key = key
                                 /\ clock - ext_done.at < PAGESPEED_COOLDOWN_SECONDS]

\* history at the moment request p issues its external call
Issued(p, reqs) == [reqs EXCEPT ![p].ext = clock]

\* analyze(url, strategy) up to its first await
AnalyzeCall(p, url, strategy) ==
    LET key == cache_key(url, strategy)
        rec == NewCall(key)
    IN
    /\ ppc[p] \in {"idle", "done"}
    /\ IF ~api_key
       THEN \* not self.api_key: the fallback, outside the gate
            /\ ppc' = [ppc EXCEPT ![p] = "fallback"]
            /\ preq' = [preq EXCEPT ![p] = rec]
            /\ presult' = [presult EXCEPT ![p] = NoResult]
            /\ UNCHANGED <<sem_value>>
       ELSE IF cache[key] # NoEntry /\ cache_valid(cache[key], clock)
       THEN \* cache first: a copy of the stored data, marked cached
            /\ ppc' = [ppc EXCEPT ![p] = "done"]
            /\ presult' = [presult EXCEPT ![p] = [cache[key].data EXCEPT !.cached = TRUE]]
            /\ preq' = [preq EXCEPT ![p] = NoCall]
            /\ UNCHANGED <<sem_value>>
       ELSE IF cooldown_active(clock, last_call_ts)
       THEN \* global cooldown: the fallback, without waiting
            /\ ppc' = [ppc EXCEPT ![p] = "fallback"]
            /\ preq' = [preq EXCEPT ![p] = rec]
            /\ presult' = [presult EXCEPT ![p] = NoResult]
            /\ UNCHANGED <<sem_value>>
       ELSE IF locked(sem_value)
       THEN \* async with _semaphore: wait for the slot
            /\ ppc' = [ppc EXCEPT ![p] = "gate"]
            /\ preq' = [preq EXCEPT ![p] = rec]
            /\ presult' = [presult EXCEPT ![p] = NoResult]
            /\ UNCHANGED <<sem_value>>
       ELSE \* the slot is free: client.get(PAGESPEED_API) is issued
            /\ ppc' = [ppc EXCEPT ![p] = "inflight"]
            /\ sem_value' = sem_value - 1
            /\ preq' = Issued(p, [preq EXCEPT ![p] = rec])
            /\ presult' = [presult EXCEPT ![p] = NoResult]
    /\ last_issue' = IF ppc'[p] = "inflight" THEN clock ELSE last_issue
    /\ UNCHANGED <<api_key, clock, ticks, last_call_ts, cache, ext_done>>

\* a waiting request gets the slot and issues client.get(PAGESPEED_API)
GateAcquire(p) ==
    /\ ppc[p] = "gate"
    /\ ~locked(sem_value)
    /\ sem_value' = sem_value - 1
    /\ ppc' = [ppc EXCEPT ![p] = "inflight"]
    /\ preq' = Issued(p, preq)
    /\ last_issue' = clock
    /\ UNCHANGED <<api_key, clock, ticks, last_call_ts, cache, presult, ext_done>>

sets_timestamp_always(outcome) == TRUE

\* the outcomes after which _last_call_ts = time.time() is executed: those in
\* which client.get returned a response
sets_timestamp(outcome) == outcome \notin {"timeout", "exception"}

awaits_outside(outcome) == FALSE

\* the outcomes after which `return await self._fallback_performance_check`
\* is executed inside the with-block of the semaphore: status 429, and status
\* 400 once response.json().get("error", {}).get("message") has been read
awaits_inside(outcome) == outcome \in {"429", "400"}

\* the external call ends: the rest of the with-block and the except clauses,
\* up to the next await or the return
ApiResponse(p, outcome, score) ==
    LET key == preq[p].key IN
    /\ ppc[p] = "inflight"
    /\ last_call_ts' = IF sets_timestamp(outcome) THEN clock ELSE last_call_ts
    /\ CASE outcome = "ok" ->
              \* parsed, written to the cache, returned; the slot is released
              /\ cache' = [cache EXCEPT ![key] =
                             [kind |-> "entry", data |-> parse_pagespeed(score),
                              cached_at |-> clock]]
              /\ presult' = [presult EXCEPT ![p] = parse_pagespeed(score)]
              /\ ppc' = [ppc EXCEPT ![p] = "done"]
              /\ sem_value' = sem_value + 1
              /\ ext_done' = [key |-> key, at |-> preq[p].ext]
              /\ preq' = [preq EXCEPT ![p] = NoCall]
         [] outcome # "ok" /\ awaits_inside(outcome) ->
              \* return await self._fallback_performance_check(...) inside the with-block
              /\ ppc' = [ppc EXCEPT ![p] = "fallback_gate"]
              /\ UNCHANGED <<cache, presult, sem_value, ext_done, preq>>
         [] OTHER ->
              \* an exception leaves the with-block; the except clause runs the fallback
              /\ ppc' = [ppc EXCEPT ![p] = "fallback"]
              /\ sem_value' = sem_value + 1
              /\ UNCHANGED <<cache, presult, ext_done, preq>>
    /\ UNCHANGED <<api_key, clock, ticks, last_issue>>

\* _fallback_performance_check ends and analyze() returns its result
FallbackDone(p, res) ==
    /\ ppc[p] \in {"fallback", "fallback_gate"}
    /\ presult' = [presult EXCEPT ![p] = res]
    /\ ppc' = [ppc EXCEPT ![p] = "done"]
    /\ sem_value' = IF ppc[p] = "fallback_gate" THEN sem_value + 1 ELSE sem_value
    /\ ext_done' = IF preq[p].ext # -1
                   THEN [key |-> preq[p].key, at |-> preq[p].ext]
                   ELSE ext_done
    /\ preq' = [preq EXCEPT ![p] = NoCall]
    /\ UNCHANGED <<api_key, clock, ticks, last_call_ts, cache, last_issue>>

PerfNext ==
    \/ \E d \in TickSteps : Tick(d)
    \/ \E p \in Procs, r \in Requests : AnalyzeCall(p, r[1], r[2])
    \/ \E p \in Procs : GateAcquire(p)
    \/ \E p \in Procs, o \in ApiOutcomes, sc \in ApiScores : ApiResponse(p, o, sc)
    \/ \E p \in Procs, r \in FallbackResults : FallbackDone(p, r)

\* ------------------------------------------------------------------------
\* HTMLBugsService
\* ------------------------------------------------------------------------
\* most messages in a validator response
MaxMsgs == 2

\* most <img> elements without an alt attribute in a document
MaxImgs == 3

SeqsUpTo(S, n) == UNION {[1..k -> S] : k \in 0..n}

\* Python's s[:n]
Take(s, n) == SubSeq(s, 1, Min(Len(s), n))

\* the message types the validator answers with
ValidatorTypes == {"error", "warning", "info"}

\* what the validator request can come to: no response, an error status, a
\* body that is not JSON, JSON of another shape than the documented one, or
\* a well-formed answer
ValidatorOutcomes ==
    {[kind |-> k] : k \in {"connection_error", "http_error", "not_json", "not_object",
                           "bad_messages", "missing_type", "no_messages"}}
    \cup {[kind |-> "ok", messages |-> ms] :
             ms \in SeqsUpTo([type : ValidatorTypes, message : {"m"}], MaxMsgs)}

\* the exception the try block of analyze() raises, by class ("none": it
\* returns): requests.post and raise_for_status raise RequestException,
\* response.json() a ValueError, data.get on JSON that is not an object an
\* AttributeError, msg['type'] a TypeError on an entry that is not an object
\* and a KeyError on an object without 'type'
validator_raises(v) ==
    CASE v.kind \in {"connection_error", "http_error"} -> "RequestException"
      [] v.kind = "not_json" -> "ValueError"
      [] v.kind = "not_object" -> "AttributeError"
      [] v.kind = "bad_messages" -> "TypeError"
      [] v.kind = "missing_type" -> "KeyError"
      [] OTHER -> "none"

\* except (requests.RequestException, ValueError, KeyError)
caught_by_analyze == {"RequestException", "ValueError", "KeyError"}

\* data.get('messages', [])
validator_messages(v) == IF v.kind = "ok" THEN v.messages ELSE <<>>

\* the list comprehension of analyze()
validator_bugs(v) ==
    SelectSeq(validator_messages(v), LAMBDA m : m.type \in {"error", "warning"})

Bug(type, message) == [type |-> type, message |-> message]

\* the deprecated list of _local_validation, in its order
deprecated == <<"center", "font", "marquee", "blink", "big", "strike">>

NoDeprecated == [t \in {deprecated[i] : i \in 1..Len(deprecated)} |-> 0]

\* a document as _local_validation reads it
HtmlDocs ==
    [has_doctype : BOOLEAN, has_html : BOOLEAN, has_head : BOOLEAN, has_body : BOOLEAN,
     has_title : BOOLEAN, has_charset : BOOLEAN,
     duplicate_ids : {<<>>, <<"a">>, <<"a", "b">>},
     imgs_without_alt : 0..MaxImgs,
     found : {NoDeprecated, [NoDeprecated EXCEPT !["font"] = 2],
              [NoDeprecated EXCEPT !["center"] = 1, !["strike"] = 1]}]

\* return bugs if len(bugs) > 1 else [info]
local_bugs_or_info(bugs) ==
    IF Len(bugs) > 1 THEN bugs
    ELSE <<Bug("info", "No major HTML issues detected")>>

\* _local_validation
local_validation(doc) ==
    LET If(c, b) == IF c THEN <<b>> ELSE <<>>
        tags == SelectSeq(deprecated, LAMBDA t : doc.found[t] > 0)
        bugs ==
            <<Bug("info", "Local HTML validation started")>>
            \o If(~doc.has_doctype, Bug("warning", "Missing or invalid DOCTYPE declaration"))
            \o If(~doc.has_html, Bug("error", "Missing <html> element"))
            \o If(~doc.has_head, Bug("error", "Missing <head> element"))
            \o If(~doc.has_body, Bug("error", "Missing <body> element"))
            \o If(~doc.has_title, Bug("error", "Missing <title> element"))
            \o If(~doc.has_charset, Bug("warning", "Missing character encoding declaration"))
            \o [i \in 1..Len(doc.duplicate_ids) |->
                  Bug("error", "Duplicate ID '" \o doc.duplicate_ids[i] \o "' found")]
            \o If(doc.imgs_without_alt > 0,
                  Bug("warning", "Found " \o ToString(doc.imgs_without_alt)
                                 \o " <img> without 'alt' attribute"))
            \o [i \in 1..Len(tags) |->
                  Bug("warning", "Deprecated <" \o tags[i] \o "> element found ("
                                 \o ToString(doc.found[tags[i]]) \o " occurrence(s))")]
    IN local_bugs_or_info(bugs)

IssueList(issues) == [kind |-> "list", issues |-> issues]

Raised(exc) == [kind |-> "raised", exc |-> exc]

\* HTMLBugsService.analyze
html_analyze(doc, v) ==
    LET exc == validator_raises(v)
        bugs == validator_bugs(v)
    IN IF exc = "none"
       THEN IssueList(IF bugs # <<>> THEN bugs
                      ELSE <<Bug("info", "No HTML bugs found")>>)
       ELSE IF exc \in caught_by_analyze
       THEN IssueList(local_validation(doc))
       ELSE Raised(exc)

\* ------------------------------------------------------------------------
\* AccessibilityService
\* ------------------------------------------------------------------------
\* most elements of one kind that a check flags in a page
MaxItems == 4

\* most headings of a generated page
MaxHeadings == 3

HeadingLevels == {1, 2, 4}

\* the heading levels of a page in document order: all short ones, and a long
\* one that repeats a skip
HeadingLists == SeqsUpTo(HeadingLevels, MaxHeadings) \cup {<<1, 3, 1, 3, 1, 3>>}

\* a page as the six checks read it: how many elements each check flags, the
\* heading levels, and whether <html> has a lang attribute
A11yPages ==
    [missing_alt : 0..MaxItems, missing_labels : 0..MaxItems, headings : HeadingLists,
     bad_links : {0, 1, MaxItems}, contrast_issues : {0, MaxItems}, has_lang : BOOLEAN]

\* the list a check returns, one entry per flagged element
Flagged(what, n) == [i \in 1..n |-> what \o " " \o ToString(i)]

\* headings[headings.index(heading) - 1]: the entry before the first heading
\* of that level, the last entry if that is the first heading of the page
before_first(levels, level) ==
    LET first == CHOOSE j \in 1..Len(levels) :
                    /\ levels[j] = level
                    /\ \A k \in 1..(j - 1) : levels[k] # level
    IN IF first = 1 THEN levels[Len(levels)] ELSE levels[first - 1]

\* _check_heading_hierarchy
check_heading_hierarchy(levels) ==
    LET h1_count == Cardinality({i \in 1..Len(levels) : levels[i] = 1})
        multiple == IF h1_count > 1
                    THEN <<"Multiple h1 elements found (" \o ToString(h1_count) \o ")">>
                    ELSE <<>>
        positions == SelectSeq([i \in 1..Len(levels) |-> i],
                               LAMBDA i : i > 1 /\ levels[i] - levels[i - 1] > 1)
    IN multiple \o [n \in 1..Len(positions) |->
                      "Skipped from <h" \o ToString(before_first(levels, levels[positions[n]]))
                      \o "> to <h" \o ToString(levels[positions[n]]) \o ">"]

a11y_issues_as_found(issues) == issues

\* return issues if issues else [info]
a11y_issues_or_info(issues) ==
    IF issues # <<>> THEN issues
    ELSE <<Bug("info", "No accessibility issues detected")>>

\* AccessibilityService.analyze
a11y_analyze(page) ==
    LET If(c, b) == IF c THEN <<b>> ELSE <<>>
        Issue(type, guideline, message, found, details) ==
            [type |-> type, category |-> "accessibility", guideline |-> guideline,
             message |-> message, count |-> Len(found), details |-> details]
        missing_alt == Flagged("img", page.missing_alt)
        missing_labels == Flagged("input", page.missing_labels)
        heading_issues == check_heading_hierarchy(page.headings)
        bad_links == Flagged("a", page.bad_links)
        contrast_issues == Flagged("style", page.contrast_issues)
        issues ==
            If(missing_alt # <<>>,
               Issue("error", "WCAG 1.1.1",
                     "Found " \o ToString(Len(missing_alt)) \o " image(s) without alt text",
                     missing_alt, Take(missing_alt, 3)))
            \o If(missing_labels # <<>>,
                  Issue("error", "WCAG 1.3.1",
                        "Found " \o ToString(Len(missing_labels))
                        \o " form input(s) without labels",
                        missing_labels, Take(missing_labels, 3)))
            \o If(heading_issues # <<>>,
                  Issue("warning", "WCAG 2.4.6", "Heading hierarchy issues detected",
                        heading_issues, heading_issues))
            \o If(bad_links # <<>>,
                  Issue("warning", "WCAG 2.4.4",
                        "Found " \o ToString(Len(bad_links))
                        \o " link(s) with non-descriptive text",
                        bad_links, Take(bad_links, 3)))
            \o If(contrast_issues # <<>>,
                  Issue("warning", "WCAG 1.4.3", "Potential color contrast issues found",
                        contrast_issues, Take(contrast_issues, 3)))
            \o If(~page.has_lang,
                  [type |-> "error", category |-> "accessibility",
                   guideline |-> "WCAG 3.1.1",
                   message |-> "Missing 'lang' attribute on <html> element"])
    IN IssueList(a11y_issues_or_info(issues))

\* ------------------------------------------------------------------------
\* SecurityService
\* ------------------------------------------------------------------------
\* most inline scripts in a page
MaxScripts == 2

\* the required list of _missing_headers, in its order
required ==
    <<"Strict-Transport-Security", "Content-Security-Policy", "X-Frame-Options",
      "X-Content-Type-Options", "Referrer-Policy">>

MaxVotes == 1

\* last_analysis_stats of a verdict: its malicious and suspicious counts
Verdict(malicious, suspicious) ==
    [kind |-> "verdict", malicious |-> malicious, suspicious |-> suspicious]

\* what the reputation lookup can come to: a verdict, or the URL is unknown
\* (404, then submitted), is unknown and the submission fails, or the lookup
\* times out, answers with an error body, or with no JSON
VtOutcomes ==
    {[kind |-> k] : k \in {"not_found", "submit_failed", "timeout", "http_error", "not_json"}}
    \cup {Verdict(m, s) : m \in 0..MaxVotes, s \in 0..MaxVotes}

\* if malicious > 0 or suspicious > 0:
flagged(vt) == vt.kind = "verdict" /\ (vt.malicious > 0 \/ vt.suspicious > 0)

\* a call of SecurityService.analyze: the instance's vt_available, the URL's
\* scheme, the headers argument (the names it holds; None reads as none) and
\* the page's inline scripts
SecurityInputs ==
    [vt_available : BOOLEAN, vt : VtOutcomes, is_https : BOOLEAN,
     headers : SUBSET {required[i] : i \in 1..Len(required)},
     inline_scripts : 0..MaxScripts]

\* the exception _check_virustotal ends in when the lookup gives no verdict:
\* requests.get / requests.post raise a RequestException (a Timeout is one),
\* response.json() a ValueError, data["data"] of an error body a KeyError
vt_raises(vt) ==
    CASE vt.kind = "timeout" -> "Timeout"
      [] vt.kind = "submit_failed" -> "RequestException"
      [] vt.kind = "not_json" -> "ValueError"
      [] OTHER -> "KeyError"

\* _check_virustotal: the issue it returns, or Raised
check_virustotal(vt) ==
    CASE vt.kind = "not_found" ->
           [type |-> "info", category |-> "security", source |-> "VirusTotal",
            message |-> "URL submitted to VirusTotal for analysis"]
      [] flagged(vt) ->
           [type |-> "critical", category |-> "security", source |-> "VirusTotal",
            message |-> "URL flagged as malicious or suspicious", details |-> "stats"]
      [] vt.kind = "verdict" ->
           [type |-> "info", category |-> "security", source |-> "VirusTotal",
            message |-> "URL not flagged by VirusTotal"]
      [] OTHER -> Raised(vt_raises(vt))

\* _missing_headers
missing_headers(headers) == SelectSeq(required, LAMBDA h : h \notin headers)

static_html_checks_reordered(in) ==
    LET If(c, b) == IF c THEN <<b>> ELSE <<>>
    IN If(in.inline_scripts > 0,
          [type |-> "medium", category |-> "security",
           message |-> ToString(in.inline_scripts) \o " inline scripts detected"])
       \o If(missing_headers(in.headers) # <<>>,
             [type |-> "high", category |-> "security",
              message |-> "Missing security headers",
              details |-> missing_headers(in.headers)])
       \o If(~in.is_https,
             [type |-> "critical", category |-> "security",
              message |-> "Site is not using HTTPS"])

\* _static_html_checks
static_html_checks(in) ==
    LET If(c, b) == IF c THEN <<b>> ELSE <<>>
    IN If(~in.is_https,
          [type |-> "critical", category |-> "security",
           message |-> "Site is not using HTTPS"])
       \o If(missing_headers(in.headers) # <<>>,
             [type |-> "high", category |-> "security",
              message |-> "Missing security headers",
              details |-> missing_headers(in.headers)])
       \o If(in.inline_scripts > 0,
             [type |-> "medium", category |-> "security",
              message |-> ToString(in.inline_scripts) \o " inline scripts detected"])

short_circuits_never(vt_issue) == FALSE

\* if vt_issue["type"] == "critical": return result
short_circuits(vt_issue) == vt_issue.type = "critical"

caught_by_security_none(exc) == FALSE

\* except Exception: result["fallback_used"] = True
caught_by_security(exc) == TRUE

\* SecurityService.analyze
security_analyze(in) ==
    LET vt_issue == check_virustotal(in.vt)
        raised == in.vt_available /\ "exc" \in DOMAIN vt_issue
        answered == in.vt_available /\ ~raised
        first == IF answered THEN <<vt_issue>> ELSE <<>>
        issues == first \o static_html_checks(in)
    IN IF raised /\ ~caught_by_security(vt_issue.exc)
       THEN vt_issue
       ELSE IF answered /\ short_circuits(vt_issue)
       THEN [kind |-> "dict", primary_check |-> "VirusTotal", fallback_used |-> FALSE,
             issues |-> first]
       ELSE [kind |-> "dict", primary_check |-> "VirusTotal",
             fallback_used |-> ~answered,
             issues |-> IF issues # <<>> THEN issues
                        ELSE <<[type |-> "info", category |-> "security",
                                message |-> "No security issues detected"]>>]

\* ------------------------------------------------------------------------
\* One call of one analyzer
\* ------------------------------------------------------------------------
HtmlAnalyze(doc, v) ==
    /\ ain = [svc |-> "none"]
    /\ ain' = [svc |-> "html", doc |-> doc, validator |-> v]
    /\ aout' = html_analyze(doc, v)

A11yAnalyze(page) ==
    /\ ain = [svc |-> "none"]
    /\ ain' = [svc |-> "accessibility", page |-> page]
    /\ aout' = a11y_analyze(page)

SecurityAnalyze(in) ==
    /\ ain = [svc |-> "none"]
    /\ ain' = [svc |-> "security", in |-> in]
    /\ aout' = security_analyze(in)

\* the inputs a call can be made with: none once the call under study is made
Pending(inputs) == IF ain = [svc |-> "none"] THEN inputs ELSE {}

AnalyzerNext ==
    \/ \E doc \in Pending(HtmlDocs), v \in ValidatorOutcomes : HtmlAnalyze(doc, v)
    \/ \E page \in Pending(A11yPages) : A11yAnalyze(page)
    \/ \E in \in Pending(SecurityInputs) : SecurityAnalyze(in)

\* ------------------------------------------------------------------------
\* FeedbackService
\* ------------------------------------------------------------------------
\* _get_status
get_status(score) ==
    IF score >= 90 THEN "excellent"
    ELSE IF score >= 75 THEN "good"
    ELSE IF score >= 50 THEN "warning"
    ELSE "critical"

\* _get_color
get_color(score) ==
    IF score >= 90 THEN "#10b981"
    ELSE IF score >= 75 THEN "#3b82f6"
    ELSE IF score >= 50 THEN "#f59e0b"
    ELSE "#ef4444"

get_grade_by_status(score) ==
    IF score >= 90 THEN "A"
    ELSE IF score >= 75 THEN "B"
    ELSE IF score >= 50 THEN "C"
    ELSE "F"

\* _get_grade
get_grade(score) ==
    IF score >= 90 THEN "A"
    ELSE IF score >= 80 THEN "B"
    ELSE IF score >= 70 THEN "C"
    ELSE IF score >= 60 THEN "D"
    ELSE "F"

Metric(name, score) ==
    [name |-> name, score |-> score, status |-> get_status(score), color |-> get_color(score)]

Recommendation_medium(priority, category, title) ==
    [priority |-> "medium", category |-> category, title |-> title]

Recommendation(priority, category, title) ==
    [priority |-> priority, category |-> category, title |-> title]

mean_of_six(total_score) == total_score \div 6

mean_ceiling(total_score) == (total_score + 4) \div 5

\* overall_score = total_score // 5
mean_floor(total_score) == total_score \div 5

\* _fallback_report, of the evidence it reads: the performance dict, the three
\* issue lists, and whether seo_data holds a title and meta tags
fallback_report(qa) ==
    LET If(c, b) == IF c THEN <<b>> ELSE <<>>
        perf_score == IF qa.performance.available THEN qa.performance.score ELSE 85
        nsec == Len(qa.security_issues)
        na11y == Len(qa.accessibility_issues)
        nhtml == Len(qa.html_bugs)
        sec_score == Max(0, 100 - nsec * 15)
        a11y_score == Max(0, 100 - na11y * 10)
        code_score == IF nhtml = 0 THEN 95 ELSE Max(0, 100 - nhtml * 8)
        seo_score == 70 + (IF qa.has_title THEN 15 ELSE 0) + (IF qa.has_meta THEN 15 ELSE 0)
        total_score == perf_score + sec_score + a11y_score + code_score + seo_score
        overall_score == mean_floor(total_score)
        found ==
            If(perf_score < 70,
               "Performance score: " \o ToString(perf_score) \o "/100 - optimization needed")
            \o If(nsec > 0,
                  "Security: " \o ToString(nsec) \o " critical issues require attention")
            \o If(na11y > 0,
                  "Accessibility: " \o ToString(na11y) \o " WCAG violations detected")
        headed ==
            IF overall_score >= 80 THEN <<"Excellent overall performance!">> \o found
            ELSE IF overall_score >= 60
            THEN <<"Good foundation with room for improvement">> \o found
            ELSE found
    IN [overall_score |-> overall_score,
        grade |-> get_grade(overall_score),
        status |-> get_status(overall_score),
        summary |-> "Website scored " \o ToString(overall_score) \o "/100. "
                    \o (IF overall_score >= 80
                        THEN "Excellent work! Minor optimizations recommended."
                        ELSE IF overall_score >= 60
                        THEN "Solid foundation with room for optimization."
                        ELSE "Several critical issues need immediate attention."),
        metrics |-> <<Metric("Performance", perf_score), Metric("Security", sec_score),
                      Metric("Accessibility", a11y_score), Metric("Code Quality", code_score),
                      Metric("SEO", seo_score)>>,
        highlights |-> IF headed # <<>> THEN headed
                       ELSE <<"All critical checks passed",
                              "Site is performing well overall">>,
        recommendations |->
            If(perf_score < 70,
               Recommendation("high", "Performance", "Optimize Page Performance"))
            \o If(nsec > 0,
                  Recommendation("critical", "Security", "Fix Security Vulnerabilities"))
            \o If(na11y > 0,
                  Recommendation("medium", "Accessibility", "Improve Web Accessibility"))
            \o If(nhtml > 0,
                  Recommendation("low", "Code Quality", "Fix HTML Structure Issues"))
            \o If(~qa.has_title \/ ~qa.has_meta,
                  Recommendation("medium", "SEO", "Improve SEO Metadata")),
        details |-> [total_issues |-> nsec + na11y + nhtml, critical_issues |-> nsec,
                     warnings |-> na11y + nhtml, ai_powered |-> FALSE]]

\* the reports the language model may answer with: JSON objects that pass the
\* check of generate_feedback ("metrics" and "overall_score" are keys, and
\* "details" is an object), whatever else they hold
AiReports ==
    {[overall_score |-> 88, grade |-> "B", status |-> "good", summary |-> "s",
      metrics |-> <<Metric("Performance", 90), Metric("Security", 85),
                    Metric("Accessibility", 90), Metric("Code Quality", 90),
                    Metric("SEO", 85)>>,
      highlights |-> <<"h">>, recommendations |-> <<>>,
      details |-> [total_issues |-> 0, critical_issues |-> 0, warnings |-> 0,
                   ai_powered |-> FALSE]],
     [overall_score |-> 250, metrics |-> <<>>, details |-> [ai_powered |-> FALSE]]}

\* the values the text of the language model may parse to: the reports above,
\* objects without one of the keys generate_feedback reads or with a
\* "details" that is not an object, and JSON that is not an object
AiValues ==
    {[shape |-> "object", details_object |-> TRUE, value |-> r] : r \in AiReports}
    \cup {[shape |-> "object", details_object |-> TRUE,
           value |-> [overall_score |-> 88, details |-> [ai_powered |-> FALSE]]],
          [shape |-> "object", details_object |-> TRUE,
           value |-> [metrics |-> <<>>, details |-> [ai_powered |-> FALSE]]],
          [shape |-> "object", details_object |-> FALSE,
           value |-> [overall_score |-> 88, metrics |-> <<>>]],
          [shape |-> "object", details_object |-> FALSE,
           value |-> [overall_score |-> 88, metrics |-> <<>>, details |-> "text"]],
          [shape |-> "list"], [shape |-> "number"]}

\* what the report-generation request can come to: a timeout or connection
\* error, an error status, a body that is not JSON, a body without content,
\* a text that is not JSON, or a text that parses to a value
AiOutcomes ==
    {[kind |-> k] : k \in {"timeout", "http_error", "body_not_json", "no_content",
                           "text_not_json"}}
    \cup {[kind |-> "value", structured |-> v] : v \in AiValues}

\* if "metrics" in structured and "overall_score" in structured
feedback_validates(structured) ==
    /\ structured.shape = "object"
    /\ "metrics" \in DOMAIN structured.value
    /\ "overall_score" \in DOMAIN structured.value

\* the exception the try block of generate_feedback raises, by class ("none":
\* it reaches a return): client.post, raise_for_status, response.json, the
\* indexing of the content list, json.loads, the `in` test on a number, and
\* structured["details"]["ai_powered"] = True
generate_raises(ai) ==
    CASE ai.kind = "timeout" -> "TimeoutException"
      [] ai.kind = "http_error" -> "HTTPStatusError"
      [] ai.kind \in {"body_not_json", "text_not_json"} -> "JSONDecodeError"
      [] ai.kind = "no_content" -> "IndexError"
      [] ai.kind = "value" /\ ai.structured.shape = "number" -> "TypeError"
      [] ai.kind = "value" /\ feedback_validates(ai.structured)
         /\ "details" \notin DOMAIN ai.structured.value -> "KeyError"
      [] ai.kind = "value" /\ feedback_validates(ai.structured)
         /\ ~ai.structured.details_object -> "TypeError"
      [] OTHER -> "none"

caught_only_json(exc) == exc = "JSONDecodeError"

\* except json.JSONDecodeError / except httpx.HTTPStatusError / except Exception
caught_by_generate(exc) == TRUE

\* generate_feedback
generate_feedback(qa, has_key, ai) ==
    LET exc == generate_raises(ai) IN
    IF ~has_key THEN fallback_report(qa)
    ELSE IF exc # "none"
    THEN IF caught_by_generate(exc) THEN fallback_report(qa) ELSE Raised(exc)
    ELSE IF feedback_validates(ai.structured)
    THEN [ai.structured.value EXCEPT !.details.ai_powered = TRUE]
    ELSE fallback_report(qa)

\* most issues of one category in an evidence bundle
MaxIssues == 7

\* the lengths of the issue lists of the bundles: the short ones, and one at
\* which every category score has reached its floor
IssueCounts == (0..MaxIssues) \cup {13}

\* the performance dicts of the bundles
PerfResults ==
    {parse_pagespeed(sc) : sc \in {0, 69, 70, 100}}
    \cup FallbackResults \cup {[available |-> FALSE]}

Issues(n) == [i \in 1..n |-> Bug("error", "issue")]

\* the evidence bundles, as _fallback_report reads them
Bundles ==
    {[performance |-> perf, security_issues |-> Issues(ns),
      accessibility_issues |-> Issues(na), html_bugs |-> Issues(nh),
      has_title |-> t, has_meta |-> m] :
        perf \in PerfResults, ns \in IssueCounts, na \in IssueCounts, nh \in IssueCounts,
        t \in BOOLEAN, m \in BOOLEAN}

\* a clean bundle and a poor one
SampleBundles ==
    {[performance |-> parse_pagespeed(100), security_issues |-> Issues(0),
      accessibility_issues |-> Issues(0), html_bugs |-> Issues(0),
      has_title |-> TRUE, has_meta |-> TRUE],
     [performance |-> fallback_failed, security_issues |-> Issues(3),
      accessibility_issues |-> Issues(6), html_bugs |-> Issues(5),
      has_title |-> FALSE, has_meta |-> TRUE]}

\* one call of _fallback_report
FallbackReport(qa) ==
    /\ ain = [svc |-> "none"]
    /\ ain' = [svc |-> "fallback_report", qa |-> qa]
    /\ aout' = fallback_report(qa)

\* one call of generate_feedback
GenerateFeedback(qa, has_key, ai) ==
    /\ ain = [svc |-> "none"]
    /\ ain' = [svc |-> "generate_feedback", qa |-> qa, has_key |-> has_key, ai |-> ai]
    /\ aout' = generate_feedback(qa, has_key, ai)

\* ------------------------------------------------------------------------
\* OrchestratorService
\* ------------------------------------------------------------------------
\* the pages a successful fetch may bring back, as the analyzers read them
CleanPage ==
    [doc |-> [has_doctype |-> TRUE, has_html |-> TRUE, has_head |-> TRUE,
              has_body |-> TRUE, has_title |-> TRUE, has_charset |-> TRUE,
              duplicate_ids |-> <<>>, imgs_without_alt |-> 0, found |-> NoDeprecated],
     a11y |-> [missing_alt |-> 0, missing_labels |-> 0, headings |-> <<1, 2>>,
               bad_links |-> 0, contrast_issues |-> 0, has_lang |-> TRUE],
     inline_scripts |-> 0, is_https |-> TRUE, title |-> TRUE, meta_tags |-> TRUE]

MessyPage ==
    [doc |-> [has_doctype |-> FALSE, has_html |-> TRUE, has_head |-> TRUE,
              has_body |-> TRUE, has_title |-> FALSE, has_charset |-> TRUE,
              duplicate_ids |-> <<"a">>, imgs_without_alt |-> 2,
              found |-> [NoDeprecated EXCEPT !["font"] = 2]],
     a11y |-> [missing_alt |-> 4, missing_labels |-> 1, headings |-> <<1, 1, 4>>,
               bad_links |-> 1, contrast_issues |-> 0, has_lang |-> FALSE],
     inline_scripts |-> 2, is_https |-> FALSE, title |-> FALSE, meta_tags |-> FALSE]

SamplePages == {CleanPage, MessyPage}

\* the validator's outcomes a run of analyze_url is followed for: every failure,
\* and the answers of at most one message
SampleValidatorOutcomes ==
    {v \in ValidatorOutcomes : v.kind = "ok" => Len(v.messages) <= 1}

\* the generator's runs: without a credential no request is made
FeedbackRuns ==
    {<<FALSE, [kind |-> "timeout"]>>} \cup {<<TRUE, ai>> : ai \in AiOutcomes}

\* the reputation lookups: an instance without a key makes none
SecurityRuns ==
    {<<FALSE, Verdict(0, 0)>>} \cup {<<TRUE, vt>> : vt \in VtOutcomes}

\* the empty document of an error response: html '' and its soup
EmptyPage ==
    [doc |-> [has_doctype |-> FALSE, has_html |-> FALSE, has_head |-> FALSE,
              has_body |-> FALSE, has_title |-> FALSE, has_charset |-> FALSE,
              duplicate_ids |-> <<>>, imgs_without_alt |-> 0, found |-> NoDeprecated],
     a11y |-> [missing_alt |-> 0, missing_labels |-> 0, headings |-> <<>>,
               bad_links |-> 0, contrast_issues |-> 0, has_lang |-> FALSE],
     inline_scripts |-> 0, is_https |-> FALSE, title |-> FALSE, meta_tags |-> FALSE]

\* page_data with the final_url of a fetched page ('final_url': page.url); an
\* error response holds the requested url already
with_final_url(pd, final_url) ==
    IF pd.error THEN pd ELSE pd @@ [final_url |-> final_url]

NoPage == [kind |-> "none"]

OrchInit ==
    /\ opc = "idle"
    /\ fetched = NoResult
    /\ site = NoPage
    /\ html_bugs = <<>>
    /\ accessibility_issues = <<>>
    /\ performance = NoResult
    /\ security_issues = NoResult
    /\ returned = NoResult
    /\ calls = <<>>

\* analyze_url(url) is called: page_data = await self.fetcher.fetch(url)
OrchFetch ==
    /\ opc = "idle"
    /\ opc' = "fetch"
    /\ FetchCall
    /\ UNCHANGED <<fetched, site, html_bugs, accessibility_issues, performance,
                   security_issues, returned, calls, perfVars, anaVars, loopVars>>

takes_error_branch_never(pd) == FALSE

\* if page_data.get('error', False):
takes_error_branch(pd) == pd.error

\* fetch() has returned: the orchestrator holds its dict and the document it
\* describes (the empty one for an error response); the fetcher is at rest again
OrchFetched(page, final_url) ==
    /\ opc = "fetch"
    /\ fpc = "done"
    /\ fetched' = with_final_url(fres, final_url)
    /\ site' = IF fres.error THEN EmptyPage ELSE page
    /\ opc' = IF takes_error_branch(fres) THEN "error_feedback" ELSE "html"
    /\ fpc' = "idle" /\ attempt' = 0 /\ apc' = "out" /\ pending' = "none"
    /\ open' = {} /\ navStatus' = 0 /\ attempts' = 0 /\ outcomes' = <<>>
    /\ sleeps' = <<>> /\ httpCalls' = 0 /\ httpOutcome' = "none" /\ afterDns' = 0
    /\ exitPath' = "none" /\ opened' = {} /\ fres' = NoResult
    /\ UNCHANGED <<max_retries, httpEnv, html_bugs, accessibility_issues, performance,
                   security_issues, returned, calls, perfVars, anaVars, loopVars>>

error_qa_data_seo(pd) ==
    [final_url |-> pd.final_url, error |-> TRUE, error_type |-> pd.error_type,
     error_message |-> pd.error_message,
     performance |-> [available |-> FALSE], security_issues |-> <<>>,
     accessibility_issues |-> <<>>, html_bugs |-> <<>>,
     has_title |-> TRUE, has_meta |-> TRUE]

\* the evidence of the error branch: the fetch error fields and empty results
\* (seo_data is {}, so no title and no meta tags)
error_qa_data(pd) ==
    [final_url |-> pd.final_url, error |-> TRUE, error_type |-> pd.error_type,
     error_message |-> pd.error_message,
     performance |-> [available |-> FALSE], security_issues |-> <<>>,
     accessibility_issues |-> <<>>, html_bugs |-> <<>>,
     has_title |-> FALSE, has_meta |-> FALSE]

\* the error branch: feedback on the minimal evidence, and the error result
OrchErrorReturn(has_key, ai) ==
    LET feedback_report == generate_feedback(error_qa_data(fetched), has_key, ai) IN
    /\ opc = "error_feedback"
    /\ calls' = Append(calls, [svc |-> "feedback", qa |-> error_qa_data(fetched),
                               out |-> feedback_report])
    /\ returned' = [kind |-> "result", url |-> RequestedUrl,
                    final_url |-> fetched.final_url, status |-> fetched.status_code,
                    error |-> TRUE, error_type |-> fetched.error_type,
                    error_message |-> fetched.error_message,
                    timestamp |-> "utcnow", analysis_duration |-> "elapsed",
                    report |-> feedback_report, raw_data |-> error_qa_data(fetched)]
    /\ opc' = "returned"
    /\ UNCHANGED <<fetched, site, html_bugs, accessibility_issues, performance,
                   security_issues, fetchVars, perfVars, anaVars, loopVars>>

\* self.html_service.analyze(page_data["html"]) is called: requests.post is
\* sent and its response is waited for
OrchHtmlPost ==
    /\ opc = "html"
    /\ opc' = "html_wait"
    /\ calls' = Append(calls, [svc |-> "html"])
    /\ UNCHANGED <<fetched, site, html_bugs, accessibility_issues, performance,
                   security_issues, returned, fetchVars, perfVars, anaVars, loopVars>>

\* the validator request has ended: html_bugs = the list analyze returns;
\* nothing in analyze_url catches what the call raises
OrchHtml(v) ==
    LET r == html_analyze(site.doc, v) IN
    /\ opc = "html_wait"
    /\ UNCHANGED calls
    /\ IF r.kind = "raised"
       THEN /\ opc' = "raised"
            /\ returned' = r
            /\ UNCHANGED html_bugs
       ELSE /\ opc' = "a11y"
            /\ html_bugs' = r.issues
            /\ UNCHANGED returned
    /\ UNCHANGED <<fetched, site, accessibility_issues, performance, security_issues,
                   fetchVars, perfVars, anaVars, loopVars>>

\* accessibility_issues = self.accessibility_service.analyze(page_data["soup"])
OrchA11y ==
    /\ opc = "a11y"
    /\ calls' = Append(calls, [svc |-> "a11y"])
    /\ accessibility_issues' = a11y_analyze(site.a11y).issues
    /\ opc' = "perf"
    /\ UNCHANGED <<fetched, site, html_bugs, performance, security_issues, returned,
                   fetchVars, perfVars, anaVars, loopVars>>

\* if not page_data.get("error"):
\*     performance = await self.performance_service.analyze(page_data["final_url"])
OrchPerf ==
    /\ opc = "perf"
    /\ IF fetched.error
       THEN /\ opc' = "security"
            /\ performance' = [available |-> FALSE]
            /\ UNCHANGED <<calls, perfVars>>
       ELSE /\ opc' = "perf_wait"
            /\ calls' = Append(calls, [svc |-> "perf", url |-> fetched.final_url])
            /\ AnalyzeCall("r1", fetched.final_url, "mobile")
            /\ UNCHANGED performance
    /\ UNCHANGED <<fetched, site, html_bugs, accessibility_issues,
                   security_issues, returned, fetchVars, anaVars, loopVars>>

\* the await of the prober ends
OrchPerfReturned ==
    /\ opc = "perf_wait"
    /\ ppc["r1"] = "done"
    /\ performance' = presult["r1"]
    /\ opc' = "security"
    /\ UNCHANGED <<fetched, site, html_bugs, accessibility_issues, security_issues,
                   returned, calls, fetchVars, perfVars, anaVars, loopVars>>

passed_headers_all == {required[i] : i \in 1..Len(required)}

\* the headers argument of the call below: none is passed, so headers is None
\* and _static_html_checks reads {}
passed_headers == {}

\* security_issues = self.security_service.analyze(soup, final_url)
OrchSecurity(vt_available, vt) ==
    /\ opc = "security"
    /\ calls' = Append(calls, [svc |-> "security", url |-> fetched.final_url])
    /\ security_issues' =
           security_analyze([vt_available |-> vt_available, vt |-> vt,
                             is_https |-> site.is_https, headers |-> passed_headers,
                             inline_scripts |-> site.inline_scripts])
    /\ opc' = "feedback"
    /\ UNCHANGED <<fetched, site, html_bugs, accessibility_issues, performance,
                   returned, fetchVars, perfVars, anaVars, loopVars>>

\* qa_data, as far as the report reads it
qa_data ==
    [performance |-> performance, security_issues |-> security_issues.issues,
     accessibility_issues |-> accessibility_issues, html_bugs |-> html_bugs,
     has_title |-> site.title, has_meta |-> site.meta_tags]

\* return await self.feedback_service.generate_feedback(qa_data)
OrchReturn(has_key, ai) ==
    LET feedback_report == generate_feedback(qa_data, has_key, ai) IN
    /\ opc = "feedback"
    /\ calls' = Append(calls, [svc |-> "feedback", qa |-> qa_data, out |-> feedback_report])
    /\ returned' = feedback_report
    /\ opc' = "returned"
    /\ UNCHANGED <<fetched, site, html_bugs, accessibility_issues, performance,
                   security_issues, fetchVars, perfVars, anaVars, loopVars>>

\* ------------------------------------------------------------------------
\* Concurrent requests
\* ------------------------------------------------------------------------
\* the requests in progress
Reqs == {"q1", "q2", "q3"}

LoopInit ==
    /\ rpc = [q \in Reqs |-> "idle"]
    /\ running = "none"

\* a coroutine is resumed by the event loop only while no other call holds
\* the thread
resumable(q) == running = "none"

\* where analyze_url goes once the prober has returned: into requests.get of
\* the reputation lookup if a key is configured (the static checks make no
\* call), then into the report request if a key is configured for it
after_perf(vt_available, has_key) ==
    IF vt_available THEN "security"
    ELSE IF has_key THEN "feedback"
    ELSE "done"

\* analyze_url(url) is called and suspends in the fetcher's first await
ReqStart(q) ==
    /\ rpc[q] = "idle"
    /\ resumable(q)
    /\ rpc' = [rpc EXCEPT ![q] = "fetch"]
    /\ UNCHANGED running

\* the fetch is over: on an error the coroutine awaits the report request (or
\* returns, without a key); otherwise it enters html_service.analyze, whose
\* requests.post is a synchronous call made on the loop's thread
ReqFetched(q, error, has_key) ==
    /\ rpc[q] = "fetch"
    /\ resumable(q)
    /\ IF error
       THEN /\ rpc' = [rpc EXCEPT ![q] = IF has_key THEN "feedback" ELSE "done"]
            /\ UNCHANGED running
       ELSE /\ rpc' = [rpc EXCEPT ![q] = "html"]
            /\ running' = q

\* requests.post has returned; the accessibility analyzer makes no call; the
\* coroutine awaits the prober, or goes on at once on a cache hit
ReqHtmlDone(q, cached, vt_available, has_key) ==
    LET next == IF cached THEN after_perf(vt_available, has_key) ELSE "perf" IN
    /\ rpc[q] = "html"
    /\ running = q
    /\ rpc' = [rpc EXCEPT ![q] = next]
    /\ running' = IF next = "security" THEN q ELSE "none"

\* the await of the prober is over
ReqPerfDone(q, vt_available, has_key) ==
    LET next == after_perf(vt_available, has_key) IN
    /\ rpc[q] = "perf"
    /\ resumable(q)
    /\ rpc' = [rpc EXCEPT ![q] = next]
    /\ running' = IF next = "security" THEN q ELSE "none"

\* requests.get (and requests.post) of the reputation lookup has returned
ReqSecurityDone(q, has_key) ==
    /\ rpc[q] = "security"
    /\ running = q
    /\ rpc' = [rpc EXCEPT ![q] = IF has_key THEN "feedback" ELSE "done"]
    /\ running' = "none"

\* the await of the report request is over: analyze_url returns
ReqFeedbackDone(q) ==
    /\ rpc[q] = "feedback"
    /\ resumable(q)
    /\ rpc' = [rpc EXCEPT ![q] = "done"]
    /\ UNCHANGED running

\* a step of request q
ReqStep(q) ==
    \/ ReqStart(q)
    \/ \E error \in BOOLEAN, has_key \in BOOLEAN : ReqFetched(q, error, has_key)
    \/ \E cached \in BOOLEAN, vt_available \in BOOLEAN, has_key \in BOOLEAN :
          ReqHtmlDone(q, cached, vt_available, has_key)
    \/ \E vt_available \in BOOLEAN, has_key \in BOOLEAN : ReqPerfDone(q, vt_available, has_key)
    \/ \E has_key \in BOOLEAN : ReqSecurityDone(q, has_key)
    \/ ReqFeedbackDone(q)

vars == <<fetchVars, perfVars, anaVars, orchVars, loopVars>>

\* ------------------------------------------------------------------------
\* Specifications
\* ------------------------------------------------------------------------
\* the analyzers at rest
AnaIdle == ain = [svc |-> "none"] /\ aout = NoResult

\* the fetcher at rest, as the orchestrator constructs it: FetcherService()
FetchIdle == FetchInit /\ max_retries = 2 /\ httpEnv = "ok"

\* the prober at rest, with a key configured
PerfIdle == PerfInit /\ api_key

OnlyFetch(A) == A /\ UNCHANGED <<perfVars, anaVars, orchVars, loopVars>>

OnlyPerf(A) == A /\ UNCHANGED <<fetchVars, anaVars, orchVars, loopVars>>

OnlyAna(A) == A /\ UNCHANGED <<fetchVars, perfVars, orchVars, loopVars>>

OnlyLoop(A) == A /\ UNCHANGED <<fetchVars, perfVars, anaVars, orchVars>>

\* one fetch() call, step by step, for every max_retries and every outcome of
\* its browser attempts and of the HTTP fetch
FetchSpecInit == FetchInit /\ PerfIdle /\ AnaIdle /\ OrchInit /\ LoopInit

FetchSpecNext ==
    \/ OnlyFetch(FetchCall)
    \/ OnlyFetch(EnterPlaywright)
    \/ OnlyFetch(LaunchBrowser)
    \/ OnlyFetch(NewContext)
    \/ OnlyFetch(NewPage)
    \/ OnlyFetch(AddInitScript)
    \/ OnlyFetch(Navigate)
    \/ OnlyFetch(CloseContext)
    \/ OnlyFetch(CloseBrowser)
    \/ OnlyFetch(ExitPlaywright)
    \/ OnlyFetch(AttemptReturns)
    \/ OnlyFetch(AttemptRaises)
    \/ OnlyFetch(SleepDone)
    \/ OnlyFetch(HttpFallback)

FetchSpec == FetchSpecInit /\ [][FetchSpecNext]_vars

\* the event loop keeps running a call that can take a step: every await of
\* fetch() is bounded (navigation and HTTP timeouts, finite sleeps)
FetchLiveSpec == FetchSpec /\ WF_vars(FetchSpecNext)

\* concurrent analyze() calls of the prober
PerfSpecInit == PerfInit /\ FetchIdle /\ AnaIdle /\ OrchInit /\ LoopInit

PerfSpecNext ==
    \/ \E d \in TickSteps : OnlyPerf(Tick(d))
    \/ \E p \in Procs, r \in Requests : OnlyPerf(AnalyzeCall(p, r[1], r[2]))
    \/ \E p \in Procs : OnlyPerf(GateAcquire(p))
    \/ \E p \in Procs, o \in ApiOutcomes, sc \in ApiScores : OnlyPerf(ApiResponse(p, o, sc))
    \/ \E p \in Procs, r \in FallbackResults : OnlyPerf(FallbackDone(p, r))

PerfSpec == PerfSpecInit /\ [][PerfSpecNext]_vars

\* one call of one analyzer, for every input
AnalyzerSpecInit == AnaIdle /\ FetchIdle /\ PerfIdle /\ OrchInit /\ LoopInit

AnalyzerSpecNext ==
    \/ \E doc \in Pending(HtmlDocs), v \in ValidatorOutcomes : OnlyAna(HtmlAnalyze(doc, v))
    \/ \E page \in Pending(A11yPages) : OnlyAna(A11yAnalyze(page))
    \/ \E in \in Pending(SecurityInputs) : OnlyAna(SecurityAnalyze(in))

AnalyzerSpec == AnalyzerSpecInit /\ [][AnalyzerSpecNext]_vars

\* one call of the prober's fallback check, for every measurement
ProbeSpecInit == AnaIdle /\ FetchIdle /\ PerfIdle /\ OrchInit /\ LoopInit

ProbeSpecNext ==
    \/ \E t \in Pending(TtfbSamples), z \in SizeSamples : OnlyAna(FallbackCheck(t, z))
    \/ OnlyAna(FallbackCheckFails)

ProbeSpec == ProbeSpecInit /\ [][ProbeSpecNext]_vars

\* one call of the report generator, for every bundle and every outcome of
\* the report-generation request
FeedbackSpecInit == AnaIdle /\ FetchIdle /\ PerfIdle /\ OrchInit /\ LoopInit

FeedbackSpecNext ==
    \/ \E qa \in Pending(Bundles) : OnlyAna(FallbackReport(qa))
    \/ \E qa \in Pending(SampleBundles), k \in BOOLEAN, ai \in AiOutcomes :
          OnlyAna(GenerateFeedback(qa, k, ai))

FeedbackSpec == FeedbackSpecInit /\ [][FeedbackSpecNext]_vars

\* one analyze_url() call, with every outcome of the fetch and of the four
\* external services; the orchestrator constructs FetcherService() with its
\* default max_retries
PipelineSpecInit ==
    /\ FetchInit /\ max_retries = 2
    /\ PerfInit /\ AnaIdle /\ OrchInit /\ LoopInit

PipelineSpecNext ==
    \/ OrchFetch
    \/ OnlyFetch(EnterPlaywright)
    \/ OnlyFetch(LaunchBrowser)
    \/ OnlyFetch(NewContext)
    \/ OnlyFetch(NewPage)
    \/ OnlyFetch(AddInitScript)
    \/ OnlyFetch(Navigate)
    \/ OnlyFetch(CloseContext)
    \/ OnlyFetch(CloseBrowser)
    \/ OnlyFetch(ExitPlaywright)
    \/ OnlyFetch(AttemptReturns)
    \/ OnlyFetch(AttemptRaises)
    \/ OnlyFetch(SleepDone)
    \/ OnlyFetch(HttpFallback)
    \/ \E page \in SamplePages, final_url \in FinalUrls : OrchFetched(page, final_url)
    \/ \E f \in FeedbackRuns : OrchErrorReturn(f[1], f[2])
    \/ OrchHtmlPost
    \/ \E v \in SampleValidatorOutcomes : OrchHtml(v)
    \/ OrchA11y
    \/ OrchPerf
    \/ \E o \in ApiOutcomes, sc \in ApiScores : OnlyPerf(ApiResponse("r1", o, sc))
    \/ \E r \in FallbackResults : OnlyPerf(FallbackDone("r1", r))
    \/ OrchPerfReturned
    \/ \E s \in SecurityRuns : OrchSecurity(s[1], s[2])
    \/ \E f \in FeedbackRuns : OrchReturn(f[1], f[2])

PipelineSpec == PipelineSpecInit /\ [][PipelineSpecNext]_vars

\* the steps of analyze_url that end within a stated time: the awaits of the
\* fetch (navigation and HTTP timeouts, finite sleeps), the prober's requests
\* (httpx timeout 60 s and 20 s), the reputation lookup (timeout=10) and the
\* report request (httpx timeout 60 s), and the steps that make no external
\* call; the response to requests.post of the validator, which states no
\* timeout, is not among them
PipelineTimedNext ==
    \/ OrchFetch
    \/ OnlyFetch(EnterPlaywright)
    \/ OnlyFetch(LaunchBrowser)
    \/ OnlyFetch(NewContext)
    \/ OnlyFetch(NewPage)
    \/ OnlyFetch(AddInitScript)
    \/ OnlyFetch(Navigate)
    \/ OnlyFetch(CloseContext)
    \/ OnlyFetch(CloseBrowser)
    \/ OnlyFetch(ExitPlaywright)
    \/ OnlyFetch(AttemptReturns)
    \/ OnlyFetch(AttemptRaises)
    \/ OnlyFetch(SleepDone)
    \/ OnlyFetch(HttpFallback)
    \/ \E page \in SamplePages, final_url \in FinalUrls : OrchFetched(page, final_url)
    \/ \E f \in FeedbackRuns : OrchErrorReturn(f[1], f[2])
    \/ OrchHtmlPost
    \/ OrchA11y
    \/ OrchPerf
    \/ \E o \in ApiOutcomes, sc \in ApiScores : OnlyPerf(ApiResponse("r1", o, sc))
    \/ \E r \in FallbackResults : OnlyPerf(FallbackDone("r1", r))
    \/ OrchPerfReturned
    \/ \E s \in SecurityRuns : OrchSecurity(s[1], s[2])
    \/ \E f \in FeedbackRuns : OrchReturn(f[1], f[2])

\* the event loop runs every step that ends within a stated time
PipelineLiveSpec == PipelineSpec /\ WF_vars(PipelineTimedNext)

\* concurrent analyze_url requests, each followed from one network wait to
\* the next
ConcurrentSpecInit == LoopInit /\ FetchIdle /\ PerfIdle /\ AnaIdle /\ OrchInit

ConcurrentSpecNext ==
    \/ \E q \in Reqs : OnlyLoop(ReqStart(q))
    \/ \E q \in Reqs, error \in BOOLEAN, has_key \in BOOLEAN :
          OnlyLoop(ReqFetched(q, error, has_key))
    \/ \E q \in Reqs, cached \in BOOLEAN, vt_available \in BOOLEAN, has_key \in BOOLEAN :
          OnlyLoop(ReqHtmlDone(q, cached, vt_available, has_key))
    \/ \E q \in Reqs, vt_available \in BOOLEAN, has_key \in BOOLEAN :
          OnlyLoop(ReqPerfDone(q, vt_available, has_key))
    \/ \E q \in Reqs, has_key \in BOOLEAN : OnlyLoop(ReqSecurityDone(q, has_key))
    \/ \E q \in Reqs : OnlyLoop(ReqFeedbackDone(q))

ConcurrentSpec == ConcurrentSpecInit /\ [][ConcurrentSpecNext]_vars

\* ------------------------------------------------------------------------
\* Properties of FetcherService
\* ------------------------------------------------------------------------
LastOutcome == IF outcomes = <<>> THEN "none" ELSE outcomes[Len(outcomes)]

DnsSeen == \E i \in 1..Len(outcomes) : outcomes[i] = "dns"

FetchErrorTypes == {"dns_error", "timeout", "ssl_error", "connection_refused", "fetch_failed"}

\* C1: a fetch() call that has ended has returned a FetchedPage dict, either a
\* page with error = FALSE from one of the two tiers or the error variant with
\* error = TRUE and a known error_type; no exception of a browser attempt or of
\* the HTTP fetch is left unhandled (a call that has not ended can take a step).
C1_FetchNeverFails ==
    /\ fpc = "done" =>
         /\ fres.kind = "page"
         /\ fres.error \in BOOLEAN
         /\ fres.error => fres.error_type \in FetchErrorTypes /\ fres.tier = "none"
         /\ ~fres.error => fres.tier \in {"browser", "http"}
    /\ fpc # "done" => ENABLED FetchNext

\* C1 witness: every browser attempt raised, the HTTP fetch raised too, and the
\* call returned the error variant.
C1_Witness ==
    /\ fpc = "done"
    /\ max_retries >= 1
    /\ Len(outcomes) = max_retries + 1
    /\ httpOutcome = "timeout"
    /\ fres.kind = "page" /\ fres.error /\ fres.error_type = "fetch_failed"

\* C3 as stated: whenever the browser tier failed and a plain HTTP GET of the
\* URL succeeds, fetch() returns the HTTP tier's page with error = FALSE.
C3_Original ==
    (fpc = "done" /\ LastOutcome \notin {"none", "ok"} /\ httpEnv = "ok") =>
        (fres.kind = "page" /\ ~fres.error /\ fres.tier = "http")

\* C3 amended: whenever the browser tier failed without a name-resolution
\* error (all max_retries + 1 attempts raised, none with ERR_NAME_NOT_RESOLVED)
\* and a plain HTTP GET of the URL succeeds, fetch() issues that GET once and
\* returns its page with error = FALSE.
C3_HttpFallbackUnlessDns ==
    (fpc = "done" /\ LastOutcome \notin {"none", "ok", "dns"} /\ httpEnv = "ok") =>
        /\ fres.kind = "page" /\ ~fres.error /\ fres.tier = "http"
        /\ httpCalls = 1
        /\ Len(outcomes) = max_retries + 1

\* C3 witness: the driver could not be started in the last attempt and the
\* HTTP tier delivered the page.
C3_Witness ==
    /\ fpc = "done"
    /\ exitPath = "async_playwright"
    /\ LastOutcome = "other"
    /\ fres.kind = "page" /\ ~fres.error /\ fres.tier = "http"

\* C4 as stated: a call in which name resolution failed returns dns_error after
\* a single browser attempt, with no HTTP fetch and no backoff sleep elapsed
\* during the call.
C4_Original ==
    (fpc = "done" /\ DnsSeen) =>
        /\ fres.kind = "page" /\ fres.error_type = "dns_error"
        /\ attempts = 1
        /\ sleeps = <<>>
        /\ httpCalls = 0

\* C4 amended: as soon as a browser attempt raises a name-resolution error the
\* call is over with the dns_error variant: that attempt is the last one, no
\* HTTP fetch is issued, and nothing (no sleep, no attempt) follows it; the only
\* sleeps of the call are those after the earlier, non-DNS failures.
C4_DnsReturnsAtOnce ==
    DnsSeen =>
        /\ fpc = "done"
        /\ fres = create_error_response("dns_error")
        /\ fres.status_code = 404
        /\ LastOutcome = "dns"
        /\ \A i \in 1..(Len(outcomes) - 1) : outcomes[i] # "dns"
        /\ afterDns = 0
        /\ httpCalls = 0
        /\ Len(sleeps) = Len(outcomes) - 1

\* C4 witness: a first attempt timed out, the retry hit the DNS error after the
\* 1 s backoff, and the call returned dns_error.
C4_Witness ==
    /\ fpc = "done"
    /\ outcomes = <<"timeout", "dns">>
    /\ sleeps = <<1>>
    /\ fres.kind = "page" /\ fres.error_type = "dns_error"

C5_Bounded ==
    /\ attempts <= max_retries + 1
    /\ httpCalls <= 1
    /\ Len(sleeps) <= max_retries
    /\ \A k \in 1..Len(sleeps) : sleeps[k] = 2 ^ (k - 1)
    /\ fpc = "sleep" => Len(sleeps) = attempts /\ attempts <= max_retries
    /\ fpc \in {"http", "done"} => Len(sleeps) = attempts - 1
    /\ httpCalls = 1 => attempts = max_retries + 1 /\ Len(sleeps) = max_retries

\* C5: every fetch() call ends; it makes at most max_retries + 1 browser
\* attempts and at most one HTTP fetch; the k-th sleep of a call (after failed
\* round k - 1) lasts 2^(k-1) seconds; there is one sleep per failed round that
\* is followed by another round, so none after the last browser attempt and
\* none before the HTTP fallback.
C5_TerminatesWithinBudget == [](C5_Bounded) /\ <>(fpc = "done")

\* C5 witness: the full budget was used: max_retries + 1 = 3 attempts, sleeps of
\* 1 s and 2 s, then the HTTP fetch.
C5_Witness ==
    /\ fpc = "done"
    /\ attempts = 3
    /\ sleeps = <<1, 2>>
    /\ httpCalls = 1

ErrorStatus ==
    {<<"dns_error", 404>>, <<"timeout", 408>>, <<"ssl_error", 526>>,
     <<"connection_refused", 503>>, <<"fetch_failed", 500>>}

\* an error variant: error = true, its status fixed by its kind, empty html
\* and collections, no load time, no size, final_url the requested URL
ErrorVariant(r) ==
    /\ r.error
    /\ <<r.error_type, r.status_code>> \in ErrorStatus
    /\ r.html = "empty"
    /\ \A f \in {"meta_tags", "images", "links", "forms", "scripts", "stylesheets"} :
          r[f] = <<>>
    /\ \A h \in DOMAIN r.headings : r.headings[h] = <<>>
    /\ r.load_time = 0
    /\ r.size_bytes = 0
    /\ r.final_url = RequestedUrl

\* C26: every error variant returned by fetch has error = true, an error_type
\* among dns_error, timeout, ssl_error, connection_refused and fetch_failed,
\* the status_code of that kind (404, 408, 526, 503, 500), empty html and
\* collections, load_time 0, size_bytes 0 and final_url the requested URL;
\* the response built for each of the five kinds is such a variant.
C26_ErrorVariantShape ==
    /\ (fpc = "done" /\ fres.kind = "page" /\ fres.error) => ErrorVariant(fres)
    /\ \A k \in {e[1] : e \in ErrorStatus} : ErrorVariant(create_error_response(k))

\* a fetch that ended at once in the dns_error response
C26_Witness ==
    /\ fpc = "done"
    /\ fres.kind = "page"
    /\ fres.error
    /\ fres.error_type = "dns_error"
    /\ fres.status_code = 404

\* every browser attempt of the call failed, none with a DNS error
AllAttemptsFailed ==
    /\ Len(outcomes) = max_retries + 1
    /\ \A i \in 1..Len(outcomes) : outcomes[i] \in ErrorKinds \ {"dns"}

\* C37: fetch emits no error kind but dns_error (a browser attempt failed
\* with a name-resolution error; status 404) and fetch_failed (every browser
\* attempt failed and the HTTP fetch raised, be it by a timeout, an SSL
\* failure, a refused connection or a DNS failure of the HTTP tier; status
\* 500); the kinds timeout, ssl_error and connection_refused and the statuses
\* 408, 526 and 503 never appear in an error response.
C37_OnlyTwoKinds ==
    (fpc = "done" /\ fres.kind = "page") =>
        /\ fres.error =>
              /\ fres.error_type \in {"dns_error", "fetch_failed"}
              /\ fres.error_type \notin {"timeout", "ssl_error", "connection_refused"}
              /\ fres.status_code \in {404, 500}
              /\ fres.status_code \notin {408, 526, 503}
        /\ (fres.error /\ fres.error_type = "dns_error")
              <=> (LastOutcome = "dns" /\ httpCalls = 0)
        /\ (fres.error /\ fres.error_type = "fetch_failed")
              <=> (AllAttemptsFailed /\ httpCalls = 1 /\ httpOutcome \in ErrorKinds)

\* after browser attempts that timed out, the HTTP fetch timed out as well
\* and the call returned fetch_failed with status 500
C37_Witness ==
    /\ fpc = "done"
    /\ fres.kind = "page"
    /\ fres.error
    /\ fres.error_type = "fetch_failed"
    /\ fres.status_code = 500
    /\ LastOutcome = "timeout"
    /\ httpOutcome = "timeout"

\* ------------------------------------------------------------------------
\* Properties of the analyzers
\* ------------------------------------------------------------------------
\* the call under study found nothing to report, read off its inputs
FoundNothing ==
    CASE ain.svc = "html" ->
           IF validator_raises(ain.validator) = "none"
           THEN validator_bugs(ain.validator) = <<>>
           ELSE /\ ain.doc.has_doctype /\ ain.doc.has_html /\ ain.doc.has_head
                /\ ain.doc.has_body /\ ain.doc.has_title /\ ain.doc.has_charset
                /\ ain.doc.duplicate_ids = <<>> /\ ain.doc.imgs_without_alt = 0
                /\ ain.doc.found = NoDeprecated
      [] ain.svc = "accessibility" ->
           /\ ain.page.missing_alt = 0 /\ ain.page.missing_labels = 0
           /\ check_heading_hierarchy(ain.page.headings) = <<>>
           /\ ain.page.bad_links = 0 /\ ain.page.contrast_issues = 0
           /\ ain.page.has_lang
      [] ain.svc = "security" ->
           /\ ~(ain.in.vt_available /\ flagged(ain.in.vt))
           /\ static_html_checks(ain.in) = <<>>
      [] OTHER -> FALSE

\* the list the call returned is not empty, and is one info record if the
\* call found nothing
ReturnsIssues ==
    /\ aout.issues # <<>>
    /\ FoundNothing => Len(aout.issues) = 1 /\ aout.issues[1].type = "info"

\* C7: every analyzer call returns a list of issues (it does not raise), the
\* list is never empty, and when the analyzer finds nothing the list is
\* exactly one record of severity info.
C7_Original ==
    ain.svc # "none" => aout.kind \in {"list", "dict"} /\ ReturnsIssues

\* the validation service failed the call under study: no response, an error
\* status, a body that is not JSON, JSON of the wrong shape, or a message
\* without its type
ValidatorFailed ==
    ain.validator.kind \in {"connection_error", "http_error", "not_json", "not_object",
                            "bad_messages", "missing_type"}

\* C23: HTMLBugsService.analyze routes every failure of the validation
\* service to the local fallback and never propagates it: each such call
\* returns the result of the local structural checks.
C23_Original ==
    (ain.svc = "html" /\ ValidatorFailed) =>
        /\ aout.kind = "list"
        /\ aout = IssueList(local_validation(ain.doc))

\* the document of the scenario: no DOCTYPE, no <title>, three images without
\* alt, one duplicated id, and nothing else to report
ScenarioDoc ==
    [has_doctype |-> FALSE, has_html |-> TRUE, has_head |-> TRUE, has_body |-> TRUE,
     has_title |-> FALSE, has_charset |-> TRUE, duplicate_ids |-> <<"a">>,
     imgs_without_alt |-> 3, found |-> NoDeprecated]

\* C24: for the document of the scenario the local HTML fallback returns
\* exactly 4 records: the doctype warning, the title error, the alt-count
\* warning and the duplicate-id error; in general its list holds finding
\* records only, an info record appearing only as the single record of a
\* document with nothing to report.
C24_Original ==
    (ain.svc = "html" /\ validator_raises(ain.validator) \in caught_by_analyze) =>
        /\ ain.doc = ScenarioDoc =>
              /\ Len(aout.issues) = 4
              /\ {aout.issues[i] : i \in 1..Len(aout.issues)} =
                     {Bug("warning", "Missing or invalid DOCTYPE declaration"),
                      Bug("error", "Missing <title> element"),
                      Bug("warning", "Found 3 <img> without 'alt' attribute"),
                      Bug("error", "Duplicate ID 'a' found")}
        /\ \A i \in 1..Len(aout.issues) :
              aout.issues[i].type = "info" => Len(aout.issues) = 1

\* the severities of an IssueRecord
Severities == {"info", "warning", "error", "critical"}

\* C29: every record emitted by an analyzer (HTML-correctness, accessibility,
\* security) has a severity among info, warning, error and critical.
C29_Original ==
    (ain.svc \in {"html", "accessibility", "security"} /\ aout.kind \in {"list", "dict"}) =>
        \A i \in 1..Len(aout.issues) : aout.issues[i].type \in Severities

\* C30: AccessibilityService.analyze emits at most one record per check,
\* hence at most 6 records, and the sample list of every record holds at
\* most 3 items.
C30_Original ==
    ain.svc = "accessibility" =>
        /\ Len(aout.issues) <= 6
        /\ \A i \in 1..Len(aout.issues), j \in 1..Len(aout.issues) :
              ("guideline" \in DOMAIN aout.issues[i] /\ "guideline" \in DOMAIN aout.issues[j]
               /\ aout.issues[i].guideline = aout.issues[j].guideline) => i = j
        /\ \A i \in 1..Len(aout.issues) :
              "details" \in DOMAIN aout.issues[i] => Len(aout.issues[i].details) <= 3

\* ------------------------------------------------------------------------
\* Properties of PerformanceService
\* ------------------------------------------------------------------------
\* C8: a call that starts within the cooldown window after a call of the same
\* key issued its external request makes no external request of its own.
C8_Original ==
    \A p \in Procs : preq[p].in_window => preq[p].ext = -1

\* C9: a request that passed the cooldown check and then waited for the gate
\* issues its external request only if the previous external request was
\* issued at least the cooldown interval earlier.
C9_Original ==
    [][\A p \in Procs :
          (ppc[p] = "gate" /\ ppc'[p] = "inflight") =>
              clock - last_issue >= PAGESPEED_COOLDOWN_SECONDS]_vars

\* the requests that hold the slot of the gate
Holders == {p \in Procs : ppc[p] \in {"inflight", "fallback_gate"}}

\* C10: at most one external request is in flight; a request is in flight
\* only while it holds the slot, and the slot is free again whenever no
\* request is between acquiring it and leaving the with-block.
C10_OneInFlight ==
    /\ Cardinality({p \in Procs : ppc[p] = "inflight"}) <= 1
    /\ Cardinality(Holders) <= 1
    /\ sem_value = 1 - Cardinality(Holders)

\* one request holds the slot with its external request in flight while the
\* other waits for the gate, after an earlier external request raised
C10_Witness ==
    \E p, q \in Procs :
        /\ ppc[p] = "inflight"
        /\ ppc[q] = "gate"
        /\ ext_done # NoExt

\* the entry of a key is present and younger than CACHE_DURATION
Fresh(key) == cache[key] # NoEntry /\ clock - cache[key].cached_at < CACHE_DURATION

\* a returned dict is marked as served from the cache
IsCached(r) == "cached" \in DOMAIN r /\ r.cached

\* C11: with a key configured, a call returns the stored result marked
\* cached exactly when the entry of its key exists and is younger than six
\* hours at the call: then it returns at once, with no external request and no
\* fallback; otherwise it does not return at once, and whatever it returns
\* later (a parsed response or a fallback result) is not marked cached.
C11_CachedExactlyWhenFresh ==
    [][\A p \in Procs :
          /\ \A r \in Requests :
                (api_key /\ AnalyzeCall(p, r[1], r[2])) =>
                    IF Fresh(cache_key(r[1], r[2]))
                    THEN /\ ppc'[p] = "done"
                         /\ presult'[p] = [cache[cache_key(r[1], r[2])].data
                                             EXCEPT !.cached = TRUE]
                         /\ last_issue' = last_issue
                         /\ sem_value' = sem_value
                    ELSE ppc'[p] \in {"fallback", "gate", "inflight"}
          /\ (ppc[p] \in {"inflight", "fallback", "fallback_gate"} /\ ppc'[p] = "done")
                => ~IsCached(presult'[p])]_vars

\* a call was served from the cache, and the entry it was served from has
\* since reached the age of six hours
C11_Witness ==
    \E p \in Procs, k \in Keys :
        /\ ppc[p] = "done"
        /\ IsCached(presult[p])
        /\ cache[k] # NoEntry
        /\ presult[p] = [cache[k].data EXCEPT !.cached = TRUE]
        /\ clock - cache[k].cached_at >= CACHE_DURATION

\* C12: the cache only ever holds results parsed from a successful external
\* response (fallback = false), and only the step that handles such a
\* response changes the cache: no fallback result and no result of a 429, a
\* 400, a timeout or a failed call is stored.
C12_CacheHoldsParsedOnly ==
    /\ [](\A k \in Keys :
             cache[k] # NoEntry =>
                 /\ cache[k].data.fallback = FALSE
                 /\ \E sc \in ApiScores : cache[k].data = parse_pagespeed(sc))
    /\ [][cache' # cache => \E p \in Procs, sc \in ApiScores : ApiResponse(p, "ok", sc)]_vars

\* an external request for a key has ended with nothing stored for the key,
\* its caller was handed a fallback result, and another key has an entry
C12_Witness ==
    \E p \in Procs, k, k2 \in Keys :
        /\ ext_done.key = k
        /\ cache[k] = NoEntry
        /\ cache[k2] # NoEntry
        /\ ppc[p] = "done"
        /\ presult[p] \in FallbackResults

\* C13: while the entry of a key is fresh no step replaces it or changes its
\* data or its cached_at time.
C13_Original ==
    [][\A k \in Keys : Fresh(k) => cache'[k] = cache[k]]_vars

\* a returned dict is a fallback result
IsFallback(r) == "fallback" \in DOMAIN r /\ r.fallback

\* C14: analyze never raises: every call that has ended returned a result
\* dict; without a key every result is a fallback result; an external
\* request that ends with 429, 400, a timeout or any other failure leads to
\* the fallback; and the fallback returns a result with fallback = true,
\* with a score when available.
C14_NeverRaises ==
    /\ [](\A p \in Procs :
             ppc[p] = "done" =>
                 /\ "available" \in DOMAIN presult[p]
                 /\ ~api_key => IsFallback(presult[p]))
    /\ [][\A p \in Procs :
             /\ \A o \in ApiOutcomes \ {"ok"}, sc \in ApiScores :
                   ApiResponse(p, o, sc) => ppc'[p] \in {"fallback", "fallback_gate"}
             /\ (ppc[p] \in {"fallback", "fallback_gate"} /\ ppc'[p] = "done") =>
                   /\ IsFallback(presult'[p])
                   /\ "available" \in DOMAIN presult'[p]
                   /\ presult'[p].available => presult'[p].score \in 0..100]_vars

\* after an external request that failed, the fallback GET failed too and
\* the call returned the unavailable fallback result
C14_Witness ==
    \E p \in Procs :
        /\ ppc[p] = "done"
        /\ presult[p] = fallback_failed
        /\ ext_done # NoExt
        /\ cache[ext_done.key] = NoEntry

\* the external call of request p ends without an HTTP response
CallFails(p) ==
    \E o \in {"timeout", "exception"}, sc \in ApiScores : ApiResponse(p, o, sc)

\* the external call of request p ends with an HTTP response, of any status
CallAnswered(p) ==
    \E o \in ApiOutcomes \ {"timeout", "exception"}, sc \in ApiScores : ApiResponse(p, o, sc)

\* C38: the cooldown timestamp changes only in the step in which an external
\* call returns an HTTP response (of any status), and to the time at which the
\* response arrives; a call that times out or raises leaves it unchanged, so
\* that a call of analyze made next is not held off by the cooldown.
C38_Original ==
    /\ [][last_call_ts' # last_call_ts =>
             /\ \E p \in Procs : CallAnswered(p)
             /\ last_call_ts' = clock]_vars
    /\ [][\A p \in Procs :
             CallFails(p) =>
                 /\ last_call_ts' = last_call_ts
                 /\ ~cooldown_active(clock', last_call_ts')]_vars

\* the outcomes in which the API answers with status 400, whatever the body
Status400 == {"400", "400_not_json"}

\* while a fallback runs inside the gate, no other request gets the slot: a
\* request at the gate stays there, and none starts an external call
BlockedDuringFallback ==
    [][\A p, q \in Procs :
          (p # q /\ ppc[p] = "fallback_gate" /\ ppc'[p] = "fallback_gate") =>
              /\ ppc[q] = "gate" => ppc'[q] = "gate"
              /\ ppc'[q] # "inflight"]_vars

\* a fallback that is not inside the gate holds no slot, and the step that
\* starts it after a failed external call gives the slot back
FallbackOutsideGate ==
    /\ [](\A p \in Procs :
             ppc[p] = "fallback" => (p \notin Holders /\ sem_value = 1 - Cardinality(Holders)))
    /\ [][\A p \in Procs :
             /\ CallFails(p) => (ppc'[p] = "fallback" /\ sem_value' = sem_value + 1)
             /\ (ppc[p] \in {"idle", "done"} /\ ppc'[p] = "fallback") =>
                   /\ ~api_key \/ cooldown_active(clock, last_call_ts)
                   /\ sem_value' = sem_value]_vars

\* C39 as stated: after a response with status 429 or 400 the fallback GET
\* runs with the gate still held, and until it finishes every other request
\* that passed the cache and cooldown checks stays blocked at the gate; the
\* fallbacks for a missing key, an active cooldown, a timeout or another
\* exception run without holding the gate.
C39_Original ==
    /\ [][\A p \in Procs, o \in {"429"} \cup Status400, sc \in ApiScores :
             ApiResponse(p, o, sc) => (ppc'[p] = "fallback_gate" /\ sem_value' = 0)]_vars
    /\ BlockedDuringFallback
    /\ FallbackOutsideGate

\* C39: after a response with status 429, or with status 400 and a body that
\* holds the API's error object, the fallback GET runs with the gate still
\* held, and until it finishes every other request that passed the cache and
\* cooldown checks stays blocked at the gate; after a 400 whose body is not
\* such JSON, and for a missing key, an active cooldown, a timeout or another
\* exception, the fallback runs without holding the gate.
C39_GateHeldDuringFallback ==
    /\ [][\A p \in Procs, sc \in ApiScores :
             /\ \A o \in {"429", "400"} :
                   ApiResponse(p, o, sc) => (ppc'[p] = "fallback_gate" /\ sem_value' = 0)
             /\ ApiResponse(p, "400_not_json", sc) =>
                   (ppc'[p] = "fallback" /\ sem_value' = sem_value + 1)]_vars
    /\ BlockedDuringFallback
    /\ FallbackOutsideGate

\* after a 429 or 400 one request runs its fallback inside the gate while the
\* other, which passed the cache and cooldown checks, waits at the gate
C39_Witness ==
    \E p, q \in Procs :
        /\ ppc[p] = "fallback_gate"
        /\ ppc[q] = "gate"
        /\ sem_value = 0
        /\ last_call_ts = clock

\* the penalty the claim states for a time to first byte, in ms
TtfbPenalty(ttfb_ms) ==
    CASE ttfb_ms > 1500 -> 30
      [] ttfb_ms > 1000 /\ ttfb_ms <= 1500 -> 20
      [] ttfb_ms > 700 /\ ttfb_ms <= 1000 -> 10
      [] ttfb_ms <= 700 -> 0

\* the penalty the claim states for an HTML size, in KB
SizePenalty(size_kb) ==
    CASE size_kb > 500 -> 20
      [] size_kb > 300 /\ size_kb <= 500 -> 10
      [] size_kb <= 300 -> 0

\* C31: the fallback score is 100 minus 30, 20 or 10 for a time to first
\* byte above 1.5 s, 1.0 s or 0.7 s, minus 20 or 10 for an HTML size above
\* 500 KB or 300 KB (thresholds strict), clamped to 30..100; it is one of 50,
\* 60, 70, 80, 90, 100; the grade is A from 90, B from 80, C from 70, D from
\* 60, else F; and 1.8 s with 600 KB gives score 50 and grade F.
C31_FallbackScore ==
    (ain.svc = "fallback_check" /\ aout.available) =>
        LET raw == 100 - TtfbPenalty(ain.ttfb_ms) - SizePenalty(ain.size_kb) IN
        /\ aout.score = Max(30, Min(raw, 100))
        /\ aout.score \in {50, 60, 70, 80, 90, 100}
        /\ aout.grade = (CASE aout.score >= 90 -> "A"
                           [] aout.score \in 80..89 -> "B"
                           [] aout.score \in 70..79 -> "C"
                           [] aout.score \in 60..69 -> "D"
                           [] aout.score < 60 -> "F")
        /\ (ain.ttfb_ms = 1800 /\ ain.size_kb = 600) =>
              (aout.score = 50 /\ aout.grade = "F")

\* the fallback check measured 1.8 s and 600 KB and returned score 50, grade F
C31_Witness ==
    /\ ain.svc = "fallback_check"
    /\ ain.ttfb_ms = 1800
    /\ ain.size_kb = 600
    /\ aout.available
    /\ aout.score = 50
    /\ aout.grade = "F"

\* C20: when the reputation service returns a verdict with a nonzero
\* malicious or suspicious count, SecurityService.analyze returns exactly one
\* record, of severity critical, with fallback_used = false: no record of the
\* static checks (HTTPS, headers, inline scripts) is in the result.
C20_FlaggedShortCircuits ==
    (/\ ain.svc = "security"
     /\ ain.in.vt_available
     /\ ain.in.vt.kind = "verdict"
     /\ ain.in.vt.malicious + ain.in.vt.suspicious > 0) =>
        /\ Len(aout.issues) = 1
        /\ aout.issues[1].type = "critical"
        /\ aout.issues[1] = check_virustotal(ain.in.vt)
        /\ ~aout.fallback_used

\* a verdict with suspicious votes only, for a page that is not served over
\* HTTPS, has inline scripts and comes without headers: every static check
\* would have reported
C20_Witness ==
    /\ ain.svc = "security"
    /\ ain.in.vt_available
    /\ ain.in.vt = Verdict(0, 1)
    /\ Len(static_html_checks(ain.in)) = 3
    /\ Len(aout.issues) = 1

\* the reputation lookup of the call under study was made and gave a record
Answered ==
    /\ ain.in.vt_available
    /\ ain.in.vt.kind \in {"verdict", "not_found"}

\* the severities of a list of records, in order
Types(issues) == [i \in 1..Len(issues) |-> issues[i].type]

\* the records of aout after the reputation finding, if there is one
StaticPart == SubSeq(aout.issues, (IF Answered THEN 2 ELSE 1), Len(aout.issues))

\* the severities the static checks are to report for the call under study
StaticTypes ==
    (IF ain.in.is_https THEN <<>> ELSE <<"critical">>)
    \o (IF \A i \in 1..Len(required) : required[i] \in ain.in.headers
        THEN <<>> ELSE <<"high">>)
    \o (IF ain.in.inline_scripts = 0 THEN <<>> ELSE <<"medium">>)

\* C21: the issues of SecurityService.analyze are ordered: the reputation
\* finding first when present, then the static findings in the order no-HTTPS
\* (critical), missing headers (high, listing the absent ones), inline scripts
\* (medium); with the reputation API unavailable, an http:// URL, no headers
\* and two inline scripts the list is exactly critical, high, medium.
C21_IssuesOrdered ==
    (ain.svc = "security" /\ ~(Answered /\ flagged(ain.in.vt))) =>
        /\ Answered => "source" \in DOMAIN aout.issues[1]
        /\ \A i \in 1..Len(StaticPart) : "source" \notin DOMAIN StaticPart[i]
        /\ StaticTypes # <<>> => Types(StaticPart) = StaticTypes
        /\ \A i \in 1..Len(StaticPart) :
              StaticPart[i].type = "high" =>
                  /\ \A j \in 1..Len(required) :
                        (required[j] \notin ain.in.headers)
                            <=> (\E k \in 1..Len(StaticPart[i].details) :
                                    StaticPart[i].details[k] = required[j])
                  /\ \A k \in 1..Len(StaticPart[i].details) :
                        StaticPart[i].details[k] \notin ain.in.headers
        /\ (/\ ~ain.in.vt_available
            /\ ~ain.in.is_https
            /\ ain.in.headers = {}
            /\ ain.in.inline_scripts = 2) => Types(aout.issues) = <<"critical", "high", "medium">>

\* the scenario: no reputation API, http://, no headers, two inline scripts
C21_Witness ==
    /\ ain.svc = "security"
    /\ ~ain.in.vt_available
    /\ ~ain.in.is_https
    /\ ain.in.headers = {}
    /\ ain.in.inline_scripts = 2
    /\ Len(aout.issues) = 3

\* C22: SecurityService.analyze never raises: with the credential missing or
\* the reputation check raising, fallback_used is true and the static checks
\* run; with a non-critical verdict the static checks run as well, with
\* fallback_used false.
C22_NeverRaises ==
    ain.svc = "security" =>
        /\ aout.kind = "dict"
        /\ ~(Answered /\ flagged(ain.in.vt)) =>
              /\ aout.fallback_used <=> ~Answered
              /\ StaticTypes # <<>> => StaticPart = static_html_checks(ain.in)
              /\ StaticTypes = <<>> => Len(StaticPart) <= 1

\* the lookup timed out, on a page every static check reports on
C22_Witness ==
    /\ ain.svc = "security"
    /\ ain.in.vt_available
    /\ ain.in.vt.kind = "timeout"
    /\ aout.kind = "dict"
    /\ aout.fallback_used
    /\ Types(aout.issues) = <<"critical", "high", "medium">>

\* ------------------------------------------------------------------------
\* Properties of FeedbackService
\* ------------------------------------------------------------------------
\* the category names of a report's metrics, in order
MetricNames(report) == [i \in 1..Len(report.metrics) |-> report.metrics[i].name]

Categories == <<"Performance", "Security", "Accessibility", "Code Quality", "SEO">>

\* the sum of a report's metric scores
RECURSIVE ScoreSum(_, _)
ScoreSum(metrics, n) == IF n = 0 THEN 0 ELSE metrics[n].score + ScoreSum(metrics, n - 1)

\* C15: the report of the deterministic fallback has exactly five metrics,
\* in the order Performance, Security, Accessibility, Code Quality, SEO, and
\* its overall_score is the floor of the mean of the five scores, in 0..100.
C15_FallbackReportShape ==
    ain.svc = "fallback_report" =>
        /\ MetricNames(aout) = Categories
        /\ 5 * aout.overall_score <= ScoreSum(aout.metrics, 5)
        /\ ScoreSum(aout.metrics, 5) < 5 * (aout.overall_score + 1)
        /\ aout.overall_score \in 0..100

\* a bundle whose security and accessibility scores are at their floor and
\* whose five scores do not add up to a multiple of five
C15_Witness ==
    /\ ain.svc = "fallback_report"
    /\ aout.metrics[2].score = 0
    /\ aout.metrics[3].score = 0
    /\ ScoreSum(aout.metrics, 5) % 5 # 0

\* C16: every bundle generate_feedback returns, on either branch, has exactly
\* five metrics in the fixed category order and an overall_score in 0..100.
C16_Original ==
    ain.svc = "generate_feedback" =>
        /\ MetricNames(aout) = Categories
        /\ aout.overall_score \in 0..100

\* the text of the language model parsed to an object that holds metrics,
\* overall_score and a details object
AiValidated ==
    /\ ain.ai.kind = "value"
    /\ ain.ai.structured.shape = "object"
    /\ {"metrics", "overall_score", "details"} \subseteq DOMAIN ain.ai.structured.value
    /\ ain.ai.structured.details_object

\* C17: generate_feedback never raises; it returns the deterministic fallback
\* report, with ai_powered false, whenever the credential is missing, the
\* request fails, the text is not JSON, or the parsed value lacks metrics,
\* overall_score or a details block; it returns the external report, marked
\* ai_powered, only when parsing and validation succeed.
C17_FallbackUnlessValidated ==
    ain.svc = "generate_feedback" =>
        /\ "overall_score" \in DOMAIN aout
        /\ IF ain.has_key /\ AiValidated
           THEN /\ aout = [ain.ai.structured.value EXCEPT !.details.ai_powered = TRUE]
                /\ aout.details.ai_powered
           ELSE /\ aout = fallback_report(ain.qa)
                /\ ~aout.details.ai_powered

\* with a credential, the parsed value held metrics and overall_score but no
\* details block, and the fallback report was returned
C17_Witness ==
    /\ ain.svc = "generate_feedback"
    /\ ain.has_key
    /\ ain.ai.kind = "value"
    /\ feedback_validates(ain.ai.structured)
    /\ "details" \notin DOMAIN ain.ai.structured.value
    /\ aout = fallback_report(ain.qa)

\* the five category scores of a report, in the order of its metrics
Scores(report) == [i \in 1..Len(report.metrics) |-> report.metrics[i].score]

\* C32: in the deterministic report the performance score is the prober's
\* score if available, else 85; security is max(0, 100 - 15 n), accessibility
\* max(0, 100 - 10 n); code quality is 95 without HTML-bug records, else
\* max(0, 100 - 8 n); SEO is 70, plus 15 for a title, plus 15 for meta tags;
\* every score is in 0..100; and the grade follows from overall_score by the
\* step mapping of the prober's grade.
C32_CategoryScores ==
    ain.svc = "fallback_report" =>
        LET qa == ain.qa
            n_security == Len(qa.security_issues)
            n_accessibility == Len(qa.accessibility_issues)
            n_bugs == Len(qa.html_bugs)
        IN
        /\ Scores(aout)[1] = IF qa.performance.available THEN qa.performance.score ELSE 85
        /\ Scores(aout)[2] = Max(0, 100 - 15 * n_security)
        /\ Scores(aout)[3] = Max(0, 100 - 10 * n_accessibility)
        /\ Scores(aout)[4] = IF n_bugs = 0 THEN 95 ELSE Max(0, 100 - 8 * n_bugs)
        /\ Scores(aout)[5] = 70 + (IF qa.has_title THEN 15 ELSE 0)
                                + (IF qa.has_meta THEN 15 ELSE 0)
        /\ \A i \in 1..5 : Scores(aout)[i] \in 0..100
        /\ aout.grade = grade(aout.overall_score)

\* a report on a bundle without a performance result and without HTML-bug
\* records, with so many security issues that the score is held at 0, and
\* with a title but no meta tags
C32_Witness ==
    /\ ain.svc = "fallback_report"
    /\ ~ain.qa.performance.available
    /\ Len(ain.qa.security_issues) = 7
    /\ Len(ain.qa.html_bugs) = 0
    /\ ain.qa.has_title /\ ~ain.qa.has_meta
    /\ Scores(aout) = <<85, 0, Max(0, 100 - 10 * Len(ain.qa.accessibility_issues)), 95, 85>>
    /\ aout.grade \in {"C", "D", "F"}

\* the score below which a category gets a recommendation, and the priority
\* of that recommendation, in the order of Categories
Thresholds == <<70, 100, 100, 95, 100>>

Priorities == <<"high", "critical", "medium", "low", "medium">>

\* the position of a category in Categories
CategoryIndex(category) == CHOOSE i \in 1..5 : Categories[i] = category

\* C33: the deterministic report holds a recommendation for a category
\* exactly when the category's score is below its fixed threshold, at most
\* one per category, in the order Performance, Security, Accessibility, Code
\* Quality, SEO, with priority high for Performance, critical for Security,
\* medium for Accessibility and SEO, low for Code Quality.
C33_Recommendations ==
    ain.svc = "fallback_report" =>
        LET recs == aout.recommendations
            due == {i \in 1..5 : Scores(aout)[i] < Thresholds[i]}
        IN
        /\ \A j \in 1..Len(recs) : recs[j].category \in {Categories[i] : i \in 1..5}
        /\ {CategoryIndex(recs[j].category) : j \in 1..Len(recs)} = due
        /\ \A j, k \in 1..Len(recs) :
              j < k => CategoryIndex(recs[j].category) < CategoryIndex(recs[k].category)
        /\ \A j \in 1..Len(recs) :
              recs[j].priority = Priorities[CategoryIndex(recs[j].category)]

\* a report whose performance score is exactly 70, which gets no Performance
\* recommendation, and whose four other categories each get one
C33_Witness ==
    /\ ain.svc = "fallback_report"
    /\ Scores(aout)[1] = 70
    /\ Len(aout.recommendations) = 4
    /\ aout.recommendations[1].category = "Security"
    /\ aout.recommendations[4].category = "SEO"

\* the statements _fallback_report puts first for a good overall score
LeadingStatements ==
    {"Excellent overall performance!", "Good foundation with room for improvement"}

\* the bundle gives rise to no highlight of a category
NoCategoryHighlight(qa) ==
    /\ (IF qa.performance.available THEN qa.performance.score ELSE 85) >= 70
    /\ Len(qa.security_issues) = 0
    /\ Len(qa.accessibility_issues) = 0

\* C40: the highlights of the deterministic report are never empty and never
\* the default pair: whenever no highlight of a category is added the
\* overall_score is at least 60, so that a leading statement was inserted.
C40_HighlightsNeverDefault ==
    ain.svc = "fallback_report" =>
        /\ aout.highlights # <<>>
        /\ aout.highlights # <<"All critical checks passed", "Site is performing well overall">>
        /\ NoCategoryHighlight(ain.qa) =>
              /\ aout.overall_score >= 60
              /\ Len(aout.highlights) = 1
              /\ aout.highlights[1] \in LeadingStatements

\* the lowest report without a highlight of a category: performance 70, no
\* security or accessibility issue, code quality 0, SEO 70, overall 68
C40_Witness ==
    /\ ain.svc = "fallback_report"
    /\ NoCategoryHighlight(ain.qa)
    /\ Scores(aout) = <<70, 100, 100, 0, 70>>
    /\ aout.overall_score = 68
    /\ aout.highlights = <<"Good foundation with room for improvement">>

\* ------------------------------------------------------------------------
\* Properties of OrchestratorService
\* ------------------------------------------------------------------------
\* C2: no exception crosses the boundary of analyze_url, whatever the fetch,
\* the validator, the reputation lookup, the performance API and the report
\* generation come to.
C2_Original == opc # "raised"

\* analyze_url has ended, by a return or by an exception
Ended == opc \in {"returned", "raised"}

\* the services analyze_url called, in order
Called == [i \in 1..Len(calls) |-> calls[i].svc]

\* C18: when the fetch returns the error variant, no analyzer and not the
\* prober is invoked (cache and cooldown timestamp are as they were), the
\* generator is invoked exactly once, with the minimal evidence bundle, and
\* the result carries error = true, the fetch's error_type, error_message and
\* status, a timestamp, a duration and the generator's report.
C18_FetchFailedBranch ==
    (fetched # NoResult /\ fetched.error) =>
        /\ \A i \in 1..Len(calls) : calls[i].svc = "feedback"
        /\ opc # "raised"
        /\ cache = [k \in Keys |-> NoEntry]
        /\ last_call_ts = 0
        /\ \A p \in Procs : ppc[p] = "idle"
        /\ Ended =>
            /\ Len(calls) = 1
            /\ calls[1].qa = error_qa_data(fetched)
            /\ calls[1].qa.html_bugs = <<>>
            /\ calls[1].qa.accessibility_issues = <<>>
            /\ calls[1].qa.security_issues = <<>>
            /\ ~calls[1].qa.performance.available
            /\ returned.error
            /\ returned.error_type = fetched.error_type
            /\ returned.error_message = fetched.error_message
            /\ returned.status = fetched.status_code
            /\ {"timestamp", "analysis_duration"} \subseteq DOMAIN returned
            /\ returned.report = calls[1].out

\* a run whose fetch ended in the fetch_failed response of the HTTP fallback
\* and whose result has been returned
C18_Witness ==
    /\ opc = "returned"
    /\ fetched # NoResult
    /\ fetched.error
    /\ fetched.error_type = "fetch_failed"
    /\ returned.report = calls[1].out

\* the report analyze_url hands out was computed by _fallback_report
Deterministic(report) == ~report.details.ai_powered

\* C34: when the fetch fails and the report is computed deterministically,
\* the report is the same for every error kind: category scores 85, 100, 100,
\* 95, 70, overall_score 90, grade A, status excellent, no recommendation for
\* Performance, Security, Accessibility or Code Quality, and a positive
\* statement as the first highlight.
C34_ErrorReportFixed ==
    (opc = "returned" /\ fetched.error /\ Deterministic(returned.report)) =>
        LET report == returned.report IN
        /\ Scores(report) = <<85, 100, 100, 95, 70>>
        /\ report.overall_score = 90
        /\ report.grade = "A"
        /\ report.status = "excellent"
        /\ \A j \in 1..Len(report.recommendations) :
              report.recommendations[j].category \notin
                  {"Performance", "Security", "Accessibility", "Code Quality"}
        /\ report.highlights # <<>>
        /\ report.highlights[1] = "Excellent overall performance!"

\* a run whose fetch ended in dns_error, and whose report was computed
\* deterministically after the generation request failed
C34_Witness ==
    /\ opc = "returned"
    /\ fetched.error
    /\ fetched.error_type = "dns_error"
    /\ Deterministic(returned.report)
    /\ returned.report.overall_score = 90
    /\ returned.report.recommendations = <<Recommendation("medium", "SEO", "Improve SEO Metadata")>>

\* the categories a report holds a recommendation for
Recommended(report) ==
    {report.recommendations[j].category : j \in 1..Len(report.recommendations)}

IsHeadersRecord(issue) ==
    /\ issue.type = "high"
    /\ issue.message = "Missing security headers"
    /\ issue.details = required
    /\ Len(issue.details) = 5

\* C36: analyze_url passes no response headers to the security analyzer: in
\* every success run the security issues are either the single critical
\* record of the reputation lookup or contain the high record "Missing
\* security headers" with all five headers; the info record "No security
\* issues detected" is never among them; and the deterministic security
\* score is at most 85.
C36_HeadersAlwaysMissing ==
    security_issues # NoResult =>
        LET issues == security_issues.issues IN
        /\ \/ /\ Len(issues) = 1
              /\ issues[1].type = "critical"
              /\ "source" \in DOMAIN issues[1]
              /\ issues[1].source = "VirusTotal"
           \/ \E i \in 1..Len(issues) : IsHeadersRecord(issues[i])
        /\ \A i \in 1..Len(issues) : issues[i].message # "No security issues detected"
        /\ (opc = "returned" /\ Deterministic(returned)) => Scores(returned)[2] <= 85

\* a run on an HTTPS page without inline scripts whose reputation lookup
\* raised: the static checks ran, the headers record is the only issue, and
\* the deterministic report scores security 85
C36_Witness ==
    /\ opc = "returned"
    /\ ~fetched.error
    /\ Deterministic(returned)
    /\ site = CleanPage
    /\ security_issues.fallback_used
    /\ Len(security_issues.issues) = 1
    /\ IsHeadersRecord(security_issues.issues[1])
    /\ Scores(returned)[2] = 85

\* C19: when the fetch returns a page with error = false, analyze_url runs
\* the three analyzers and the prober each exactly once, the prober against
\* the final URL, all before the single generator call, and returns the
\* generator's output unchanged.
C19_Original ==
    (Ended /\ fetched # NoResult /\ ~fetched.error) =>
        /\ Len(calls) = 5
        /\ {Called[i] : i \in 1..4} = {"html", "a11y", "perf", "security"}
        /\ calls[5].svc = "feedback"
        /\ \A i \in 1..4 : calls[i].svc = "perf" => calls[i].url = fetched.final_url
        /\ returned = calls[5].out

\* C25: a fetch that ends in a 4xx or 5xx HTTP status is surfaced as a
\* structured error result (error = true, with an error kind and a message),
\* and analyze_url takes the fetch-failed branch: it calls no analyzer.
C25_Original ==
    (fetched # NoResult /\ fetched.status_code >= 400) =>
        /\ fetched.error
        /\ fetched.error_type # "None"
        /\ "error_message" \in DOMAIN fetched
        /\ \A i \in 1..Len(calls) : calls[i].svc = "feedback"

\* C27: every external call made during analyze_url is bounded by an
\* explicit timeout, so that analyze_url eventually returns even if an
\* external service never responds.
C27_Original == <>(opc \in {"returned", "raised"})

\* ------------------------------------------------------------------------
\* Properties of concurrent requests
\* ------------------------------------------------------------------------
\* request q waits on a network call: of the fetcher, of the markup
\* validator, of the prober, of the reputation service or of the generator
NetworkWait(q) == rpc[q] \in {"fetch", "html", "perf", "security", "feedback"}

\* C28: while one request is waiting on a network call of the fetcher, of an
\* API-backed analyzer or of the report generator, every other request that
\* has not returned can take a step.
C28_Original ==
    \A q \in Reqs, o \in Reqs :
        (q # o /\ NetworkWait(q) /\ rpc[o] # "done") => ENABLED ReqStep(o)

====
